---- MODULE Spec2Model ----
(***************************************************************************)
(* Tick generation of jvplot (src/jvplot/scale.py, class Linear).          *)
(*                                                                         *)
(* Numbers.  The code computes with floats; the model computes with exact  *)
(* integers.  One model unit is 1/20 of _FUDGE = 1e-6, so the real number  *)
(* 1.0 is One = 20 * FudgeInv units.  Data limits and widths are even      *)
(* numbers of units (multiples of 1e-7), which makes the centred limits    *)
(* (a + b -/+ width) / 2 of ticks_for_width integers again.  Scale lengths *)
(* c * 10^e are integers of this unit for every scale the model visits.    *)
(*                                                                         *)
(* Rounding.  A float operation is off by far less than a unit, so it can  *)
(* change what the code does only where the exact values stand on a        *)
(* decision boundary: a quotient that is a whole number under math.floor   *)
(* or math.ceil, two equal sides of a comparison, a logarithm that is a    *)
(* whole number.  There the model takes either outcome (a `flip` chosen by *)
(* the action), unless every operand is a binary fraction, which floats    *)
(* hold and combine exactly.  -2.9 / 0.1 is -28.999999999999996 in Python, *)
(* so math.ceil gives -28 where the exact quotient is -29.                 *)
(***************************************************************************)
EXTENDS Integers, Sequences, FiniteSets, TLC

\* _FUDGE = 1e-6, as its reciprocal
FudgeInv == 1000000

\* the real number 1.0 in model units
One == 20 * FudgeInv

\* ----- bounds of the model
\* scales k >= -MaxDown are visited (their lengths are whole units)
MaxDown == 16
\* scale lengths are evaluated for k <= MaxUp + 4
MaxUp == 3
\* arguments of _smallest_scale_larger_than: SubDiv points between two scale lengths
SubDiv == 8
\* data limits a, b are taken from -MaxCoord/20 .. MaxCoord/20 (in steps of 0.05)
MaxCoord == 8
\* widths are taken from 0.05 .. MaxWidth/20 (in steps of 0.05)
MaxWidth == 8
\* a generator is followed while a step size gives at most MaxTicks ticks
MaxTicks == 24

\* the same for the generators that Layout2D.fix drives: 10 candidates of
\* ticks_for_width reach 10 step sizes down
LayoutMaxTicks == 1200

\* the number of candidates a consumer takes: itertools.islice(..., 10)
MaxCand == 10

Pow10(n) == IF n = 0 THEN 1
            ELSE IF n = 1 THEN 10
            ELSE IF n = 2 THEN 100
            ELSE IF n = 3 THEN 1000
            ELSE IF n = 4 THEN 10000
            ELSE IF n = 5 THEN 100000
            ELSE IF n = 6 THEN 1000000
            ELSE IF n = 7 THEN 10000000
            ELSE IF n = 8 THEN 100000000
            ELSE 1000000000

\* [1.0, 2.0, 2.5, 5.0] in model units
Mantissa == << One, 2 * One, (5 * One) \div 2, 5 * One >>

\* k % 4 and k // 4 of Python: the remainder is in 0..3 and the quotient is
\* rounded towards minus infinity, for negative k too
PyMod(k, n) == k % n
PyFloorDiv(k, n) == k \div n

\* remainder and quotient of a division that truncates towards zero
TruncMod(k, n) == IF k >= 0 THEN k % n ELSE -((-k) % n)
TruncDiv(k, n) == IF k >= 0 THEN k \div n ELSE -((-k) \div n)

\* c * 10**e for an integer e of either sign (a negative e divides)
TimesPow10(c, e) == IF e >= 0 THEN c * Pow10(e) ELSE c \div Pow10(-e)

\* _scale_length with a division that truncates: c[k % 4] with a negative
\* index counts from the end of the list, as Python's indexing does
TruncScaleLength(k) ==
    LET r == TruncMod(k, 4)
        i == IF r < 0 THEN r + 4 ELSE r
    IN  TimesPow10(Mantissa[i + 1], TruncDiv(k, 4))

\* Linear._scale_length(k)
ScaleLength(k) == TimesPow10(Mantissa[PyMod(k, 4) + 1], PyFloorDiv(k, 4))

\* 2 * 10^(r/4) * One for r = 0..3: the numbers x with
\* log10(q * x) * 4 = r + 1 for q = 10**0.25 / 2, rounded down to a unit
LogMantissa == << 40000000, 71131176, 126491106, 224936530 >>

\* the least whole number of units x with log10(q * x) * 4 >= t
\* (x >= 2 * 10^((t-1)/4) * One; only r = 0 gives a rational number)
LogThreshold(t) ==
    LET j == (t - 1) \div 4
        r == (t - 1) % 4
        m == LogMantissa[r + 1]
    IN  IF r = 0 THEN (IF j >= 0 THEN m * Pow10(j) ELSE -((-m) \div Pow10(-j)))
        ELSE (m \div Pow10(-j)) + 1

\* math.floor(math.log10(q * x) * 4) in exact arithmetic, searched over
\* 2 * 10^-8 <= x / One < 20
LogFloorExact(x) ==
    CHOOSE t \in (-4 * 8)..4 : LogThreshold(t) <= x /\ x < LogThreshold(t + 1)

\* math.floor(math.log10(q * x) * 4) as floats compute it: where the exact
\* value of the logarithm is an integer the float may lie just below it
\* (x = 2.0 gives 0.9999999999999999), and `down` says whether it does
LogFloor(x, down) ==
    LET t == LogFloorExact(x)
    IN  IF down /\ x = LogThreshold(t) /\ (t - 1) % 4 = 0 THEN t - 1 ELSE t

\* _smallest_scale_larger_than without the correcting increment
SmallestScaleNoFix(x, down) == LogFloor(x, down) + 1

\* _smallest_scale_larger_than with `<` for `<=` in the correction
SmallestScaleAtLeast(x, down) ==
    LET k == LogFloor(x, down) + 1
    IN  IF ScaleLength(k) < x THEN k + 1 ELSE k

\* Linear._smallest_scale_larger_than(x)
SmallestScaleLargerThan(x, down) ==
    LET k == LogFloor(x, down) + 1
    IN  IF ScaleLength(k) <= x THEN k + 1 ELSE k

\* x / One is a binary fraction (One = 2^8 * 5^7): a float holds it exactly
Exact(x) == x % (One \div 256) = 0

\* math.floor(x / dx) and math.ceil(x / dx) for dx > 0: a quotient of
\* rounded numbers whose exact value is the whole number n may be computed
\* just below or above n
Floor(x, dx, flip) ==
    IF flip /\ x % dx = 0 /\ x # 0 /\ ~(Exact(x) /\ Exact(dx))
      THEN (x \div dx) - 1
      ELSE x \div dx
Ceil(x, dx, flip) ==
    IF flip /\ x % dx = 0 /\ x # 0 /\ ~(Exact(x) /\ Exact(dx))
      THEN -((-x) \div dx) + 1
      ELSE -((-x) \div dx)

FlipSet == BOOLEAN
FlipSet4 == [1..4 -> BOOLEAN]

Min(x, y) == IF x <= y THEN x ELSE y
Max(x, y) == IF x >= y THEN x ELSE y

\* x > y for floats of exact values x and y
FloatGt(x, y, exact, flip) == x > y \/ (x = y /\ ~exact /\ flip)

\* n > eps for eps = dx * _FUDGE and a whole number n of units; eps is a
\* whole number of units iff FudgeInv divides dx
EpsGt(n, dx, flip) ==
    LET q == dx \div FudgeInv
    IN  n > q \/ (n = q /\ dx % FudgeInv = 0 /\ flip)

\* [i * dx for i in range(ia, ib+1)]
TickList(ia, ib, dx) == [ j \in 1..(ib - ia + 1) |-> (ia + j - 1) * dx ]

\* all_inside without the test of the last tick
LeftInside(a, b, ia, ib, dx, flip1, flip2) == ~EpsGt(a - ia * dx, dx, flip1)

\* all_inside = ia*dx + eps >= a and ib*dx - eps <= b
AllInside(a, b, ia, ib, dx, flip1, flip2) ==
    ~EpsGt(a - ia * dx, dx, flip1) /\ ~EpsGt(ib * dx - b, dx, flip2)

\* the limits taken from the ticks alone
TickLim(a, b, ia, ib, dx) == << ia * dx, ib * dx >>

\* lim = (min(ia * dx, a), max(ib * dx, b))
IntervalLim(a, b, ia, ib, dx) == << Min(ia * dx, a), Max(ib * dx, b) >>

\* if ib+1 - ia < 2, testing for fewer than 1 tick
NoTicks(ia, ib) == ib + 1 - ia < 1

\* a test that finds too few ticks at every step size
AlwaysTooFew(ia, ib) == TRUE

\* if ib+1 - ia < 2: break (ticks_for_interval), if ib - ia + 1 < 2: continue
\* (ticks_for_width)
TooFewTicks(ia, ib) == ib + 1 - ia < 2

\* a - ia * dx > ib * dx - b: the first tick is the one furthest out
FirstIsFurthest(a, b, ia, ib, dx, flip) ==
    FloatGt(a - ia * dx, ib * dx - b, Exact(a) /\ Exact(b) /\ Exact(dx), flip)

\* (ib - ia + 1) * dx <= width: we can squeeze in more ticks
CanAddTick(width, ia, ib, dx, flip) ==
    ~FloatGt((ib - ia + 1) * dx, width, Exact(dx) /\ Exact(width), flip)

\* the condition of the second loop without its first test
MustRemoveForData(a, b, width, ia, ib, dx, flips) ==
    /\ ~EpsGt(b - a - width, dx, flips[2])
    /\ \/ EpsGt(ib * dx - a - width, dx, flips[3])
       \/ EpsGt(b - ia * dx - width, dx, flips[4])

\* (ib - ia) * dx > width or b - a <= width + eps and (ib * dx - a > width + eps
\* or b - ia * dx > width + eps)
MustRemoveTick(a, b, width, ia, ib, dx, flips) ==
    \/ FloatGt((ib - ia) * dx, width, Exact(dx) /\ Exact(width), flips[1])
    \/ /\ ~EpsGt(b - a - width, dx, flips[2])
       /\ \/ EpsGt(ib * dx - a - width, dx, flips[3])
          \/ EpsGt(b - ia * dx - width, dx, flips[4])

\* the limits always put at the first tick (p = 0)
WidthLimLeft(a, b, width, ia, ib, dx, flip) == << ia * dx, ia * dx + width >>

\* ticks_for_width, placement of the limits around the ticks.  With
\* gap = width - right + left and s = left + right - a - b the code's
\* p = (s / gap + 1) / 2 is (s + gap) / (2 * gap), so p <= 0 iff s + gap <= 0,
\* p >= 1 iff s >= gap, and p * gap = (s + gap) / 2, a whole number of units
\* because a, b and width are even.  Rounding of p moves the limits by less
\* than a unit, whichever branch is taken
WidthLim(a, b, width, ia, ib, dx, flip) ==
    LET left == ia * dx
        right == ib * dx
        gap == width - right + left
        s == left + right - a - b
        pgap == IF EpsGt(gap, dx, flip) THEN (s + gap) \div 2 ELSE 0
    IN  IF pgap <= 0 THEN << left, left + width >>
        ELSE IF pgap >= gap THEN << right - width, right >>
        ELSE << left - pgap, right + (gap - pgap) >>

VARIABLES
    pc,             \* where the called function or generator stands
    fn,             \* the function or generator that was called
    arg, ret,       \* argument and result of a call of a scale function
    a, b,           \* the data interval of a generator
    width,          \* the width given to ticks(), 0 for None
    allow_outside,  \* the flag given to ticks_for_interval
    step, dx,       \* the scale index and its length
    ia, ib,         \* the first and last tick are ia * dx and ib * dx
    iter,           \* the iteration of `for _ in range(3)`
    all_inside,     \* the local of that name of ticks_for_interval
    lim, ticks,     \* the candidate yielded last
    nyield,         \* the number of candidates yielded
    lpc,            \* where Layout2D.fix stands ("off": no Layout2D exists)
    lay,            \* the two Layout objects, Layout2D.x and Layout2D.y
    lay0,           \* the two Layout objects as they were constructed
    need,           \* need_x_lim, need_x_ticks, need_y_lim, need_y_ticks
    aspect,         \* the argument of fix
    fx,             \* the locals of fix
    one,            \* the locals of the running call of _fix_one
    seen,           \* per axis: the best of the candidates enumerated by the
                    \* last call of _fix_one, and the penalty it returned
    last_subplot    \* Canvas._last_subplot, None while the attribute is missing

layvars == << lpc, lay, lay0, need, aspect, fx, one, seen, last_subplot >>

vars == << pc, fn, arg, ret, a, b, width, allow_outside, step, dx, ia, ib,
           iter, all_inside, lim, ticks, nyield, lpc, lay, lay0, need, aspect,
           fx, one, seen, last_subplot >>

genvars == << a, b, width, allow_outside, step, dx, ia, ib, iter, all_inside,
              lim, ticks, nyield >>

\* None and a value that is not None
None == << >>
Some(v) == << v >>
Val(o) == o[1]

\* no Layout2D has been constructed
NoLayout ==
    /\ lay = None
    /\ lay0 = None
    /\ need = None
    /\ aspect = None
    /\ fx = None
    /\ one = None
    /\ seen = None

Init ==
    /\ pc = "idle"
    /\ fn = "none"
    /\ arg = 0
    /\ ret = 0
    /\ a = 0
    /\ b = 0
    /\ width = 0
    /\ allow_outside = TRUE
    /\ step = 0
    /\ dx = 0
    /\ ia = 0
    /\ ib = 0
    /\ iter = 0
    /\ all_inside = FALSE
    /\ lim = << 0, 0 >>
    /\ ticks = << >>
    /\ nyield = 0
    /\ lpc = "off"
    /\ NoLayout
    /\ last_subplot = None

\* the scales whose length is computed directly
ScaleArgs == (-MaxDown)..MaxUp

\* arguments x: the scale lengths, SubDiv - 1 points between each two of
\* them, and the neighbours of all these 2 units away
LengthArgs ==
    { ScaleLength(k) + ((i * (ScaleLength(k + 1) - ScaleLength(k))) \div SubDiv) + d :
        k \in ScaleArgs, i \in 0..(SubDiv - 1), d \in {-2, 0, 2} }

\* data limits and widths: multiples of 0.05, and their neighbours 1e-7 away
Grid == One \div 20
Offsets == {-2, 0, 2}
Coarse == (-MaxCoord)..MaxCoord
WidthCoarse == 1..MaxWidth

\* the number of ticks up to which the model follows a generator
TickBound == IF lpc = "off" THEN MaxTicks ELSE LayoutMaxTicks

\* a call of Linear._scale_length(k)
CallScaleLength ==
    /\ pc = "idle"
    /\ \E k \in ScaleArgs :
        /\ arg' = k
        /\ ret' = ScaleLength(k)
    /\ fn' = "_scale_length"
    /\ pc' = "returned"
    /\ UNCHANGED genvars

\* a call of Linear._smallest_scale_larger_than(x)
CallSmallestScale ==
    /\ pc = "idle"
    /\ \E x \in LengthArgs, down \in FlipSet :
        /\ arg' = x
        /\ ret' = SmallestScaleLargerThan(x, down)
    /\ fn' = "_smallest_scale_larger_than"
    /\ pc' = "returned"
    /\ UNCHANGED genvars

\* Linear.ticks(a, b, allow_outside=ao) without width: ticks_for_interval
\* up to the head of its `while True`
\* ticks_for_interval(a0, b0, allow_outside=ao) up to the head of its
\* `while True`
TicksForInterval(a0, b0, ao, down) ==
    /\ a' = a0
    /\ b' = b0
    /\ allow_outside' = ao
    /\ step' = SmallestScaleLargerThan(b0 - a0, down)
    /\ fn' = "ticks_for_interval"
    /\ pc' = "i_top"
    /\ nyield' = 0
    /\ UNCHANGED << arg, ret, width, dx, ia, ib, iter, all_inside, lim, ticks >>

CallTicksForInterval ==
    /\ pc = "idle"
    /\ \E ca \in Coarse, cb \in Coarse, fa \in Offsets, fb \in Offsets,
          ao \in BOOLEAN, down \in FlipSet :
        /\ ca < cb
        /\ TicksForInterval(ca * Grid + fa, cb * Grid + fb, ao, down)

\* ticks_for_interval: the head of the body of `while True`
IntervalTop ==
    /\ pc = "i_top"
    /\ step >= -MaxDown
    /\ step <= MaxUp + 4
    /\ LET d == ScaleLength(step)
       IN  /\ (b - a) \div d + 3 <= TickBound
           /\ dx' = d
           /\ \E flip1 \in FlipSet, flip2 \in FlipSet :
                /\ ia' = Floor(a, d, flip1)
                /\ ib' = Ceil(b, d, flip2)
    /\ iter' = 0
    /\ pc' = "i_loop"
    /\ UNCHANGED << fn, arg, ret, a, b, width, allow_outside, step, all_inside,
                    lim, ticks, nyield >>

\* remove the tick which is furthest out, and go to the next iteration
RemoveFurthest ==
    /\ \E flip \in FlipSet :
         IF FirstIsFurthest(a, b, ia, ib, dx, flip)
           THEN ia' = ia + 1 /\ ib' = ib
           ELSE ib' = ib - 1 /\ ia' = ia
    /\ iter' = iter + 1
    /\ pc' = "i_loop"
    /\ step' = step

\* leave the for loop with step += 1
NextStepUp ==
    /\ step' = step + 1
    /\ pc' = "i_top"
    /\ UNCHANGED << ia, ib, iter >>

\* leave the for loop: step -= 1
NextStep ==
    /\ step' = step - 1
    /\ pc' = "i_top"
    /\ UNCHANGED << ia, ib, iter >>

\* ticks_for_interval: one iteration of `for _ in range(3)` up to its yield
IntervalLoop ==
    /\ pc = "i_loop"
    /\ IF iter = 3 \/ TooFewTicks(ia, ib)
         THEN NextStep /\ UNCHANGED << all_inside, lim, ticks, nyield >>
         ELSE \E flip1 \in FlipSet, flip2 \in FlipSet :
              /\ all_inside' = AllInside(a, b, ia, ib, dx, flip1, flip2)
              /\ IF allow_outside \/ all_inside'
                   THEN /\ lim' = IntervalLim(a, b, ia, ib, dx)
                        /\ ticks' = TickList(ia, ib, dx)
                        /\ nyield' = nyield + 1
                        /\ pc' = "i_yield"
                        /\ UNCHANGED << step, ia, ib, iter >>
                   ELSE RemoveFurthest /\ UNCHANGED << lim, ticks, nyield >>
    /\ UNCHANGED << fn, arg, ret, a, b, width, allow_outside, dx >>

\* a generator that returns once a candidate has reached 20 ticks
IntervalResumeCapped ==
    /\ pc = "i_yield"
    /\ nyield < MaxCand
    /\ Len(ticks) < 20
    /\ IF all_inside THEN NextStep ELSE RemoveFurthest
    /\ UNCHANGED << fn, arg, ret, a, b, width, allow_outside, dx, all_inside,
                    lim, ticks, nyield >>

\* ticks_for_interval: the consumer asks for the next candidate, the
\* iteration continues after its yield
IntervalResume ==
    /\ pc = "i_yield"
    /\ nyield < MaxCand
    /\ IF all_inside THEN NextStep ELSE RemoveFurthest
    /\ UNCHANGED << fn, arg, ret, a, b, width, allow_outside, dx, all_inside,
                    lim, ticks, nyield >>

\* Linear.ticks(a, b, width=w): ticks_for_width up to the head of its
\* `while True`
\* ticks_for_width(a0, b0, w0) up to the head of its `while True`
TicksForWidth(a0, b0, w0, down) ==
    /\ a' = a0
    /\ b' = b0
    /\ width' = w0
    /\ step' = SmallestScaleLargerThan(w0, down)
    /\ fn' = "ticks_for_width"
    /\ pc' = "w_top"
    /\ nyield' = 0
    /\ UNCHANGED << arg, ret, allow_outside, dx, ia, ib, iter, all_inside, lim, ticks >>

CallTicksForWidth ==
    /\ pc = "idle"
    /\ \E ca \in Coarse, cb \in Coarse, fa \in Offsets, fb \in Offsets,
          cw \in WidthCoarse, fw \in Offsets, down \in FlipSet :
        /\ ca < cb
        /\ TicksForWidth(ca * Grid + fa, cb * Grid + fb, cw * Grid + fw, down)

\* ticks_for_width: the head of the body of `while True`
WidthTop ==
    /\ pc = "w_top"
    /\ step - 1 >= -MaxDown
    /\ LET d == ScaleLength(step - 1)
       IN  /\ Max(b - a, width) \div d + 3 <= TickBound
           /\ dx' = d
           /\ \E flip1 \in FlipSet, flip2 \in FlipSet :
                /\ ia' = Floor(a, d, flip1)
                /\ ib' = Ceil(b, d, flip2)
    /\ step' = step - 1
    /\ pc' = "w_add"
    /\ UNCHANGED << fn, arg, ret, a, b, width, allow_outside, iter, all_inside,
                    lim, ticks, nyield >>

\* ticks_for_width: one test of `while (ib - ia + 1) * dx <= width` and,
\* if it holds, the body
WidthAdd ==
    /\ pc = "w_add"
    /\ \E flip1 \in FlipSet, flip2 \in FlipSet :
         IF CanAddTick(width, ia, ib, dx, flip1)
           THEN /\ IF ~FirstIsFurthest(a, b, ia, ib, dx, flip2)
                     THEN ia' = ia - 1 /\ ib' = ib
                     ELSE ib' = ib + 1 /\ ia' = ia
                /\ pc' = "w_add"
           ELSE /\ pc' = "w_rem"
                /\ UNCHANGED << ia, ib >>
    /\ UNCHANGED << fn, arg, ret, a, b, width, allow_outside, step, dx, iter,
                    all_inside, lim, ticks, nyield >>

\* ticks_for_width: one test of the second while loop and, if it holds,
\* the body; otherwise the rest of the iteration up to its yield
WidthRemove ==
    /\ pc = "w_rem"
    /\ \E remove \in { MustRemoveTick(a, b, width, ia, ib, dx, f) : f \in FlipSet4 } :
         IF remove
           THEN /\ \E flip \in FlipSet :
                     IF FirstIsFurthest(a, b, ia, ib, dx, flip)
                       THEN ia' = ia + 1 /\ ib' = ib
                       ELSE ib' = ib - 1 /\ ia' = ia
                /\ pc' = "w_rem"
                /\ UNCHANGED << lim, ticks, nyield >>
           ELSE IF TooFewTicks(ia, ib)
             THEN /\ pc' = "w_top"
                  /\ UNCHANGED << ia, ib, lim, ticks, nyield >>
             ELSE /\ \E flip \in FlipSet : lim' = WidthLim(a, b, width, ia, ib, dx, flip)
                  /\ ticks' = TickList(ia, ib, dx)
                  /\ nyield' = nyield + 1
                  /\ pc' = "w_yield"
                  /\ UNCHANGED << ia, ib >>
    /\ UNCHANGED << fn, arg, ret, a, b, width, allow_outside, step, dx, iter, all_inside >>

\* ticks_for_width: the consumer asks for the next candidate
WidthResume ==
    /\ pc = "w_yield"
    /\ nyield < MaxCand
    /\ pc' = "w_top"
    /\ UNCHANGED << fn, arg, ret, a, b, width, allow_outside, step, dx, ia, ib,
                    iter, all_inside, lim, ticks, nyield >>

Next ==
    \/ CallScaleLength /\ UNCHANGED layvars
    \/ CallSmallestScale /\ UNCHANGED layvars
    \/ CallTicksForInterval /\ UNCHANGED layvars
    \/ IntervalTop /\ UNCHANGED layvars
    \/ IntervalLoop /\ UNCHANGED layvars
    \/ IntervalResume /\ UNCHANGED layvars
    \/ CallTicksForWidth /\ UNCHANGED layvars
    \/ WidthTop /\ UNCHANGED layvars
    \/ WidthAdd /\ UNCHANGED layvars
    \/ WidthRemove /\ UNCHANGED layvars
    \/ WidthResume /\ UNCHANGED layvars

Spec == Init /\ [][Next]_vars

\* ----- Layout and Layout2D (src/jvplot/layout.py)
\*
\* A Layout is a record of its fields; dev_width_fn is the constant function
\* with value LabelWidth and can_shift is False.  Penalties are whole numbers
\* of tenths (the code's 100 is 1000), each term rounded down.

Axes == {"x", "y"}

\* math.inf and np.inf
Inf == 2000000000

\* the constructor arguments of the two layouts, in device units
DevWidth(ax) == IF ax = "x" THEN 400 ELSE 200
DevPad == 20

\* a device too narrow for two labels side by side next to the paddings
NarrowWidth == 45

\* the device widths of the two layouts
DevWidths == {[ax \in {"x", "y"} |-> DevWidth(ax)], [ax \in {"x", "y"} |-> NarrowWidth]}
LabelWidth == 10
OptDists == {50, 200}

\* aspect ratios given to fix, as fractions << numerator, denominator >>
Aspects == { << 1, 1 >>, << 2, 1 >> }

\* data ranges, and the limits and ticks a caller may supply
DataRange(ax) == IF ax = "x" THEN << -2 * Grid, 3 * Grid >> ELSE << Grid, 7 * Grid >>
SuppliedLim(ax) == IF ax = "x" THEN << -4 * Grid, 4 * Grid >> ELSE << 0, 8 * Grid >>
SuppliedTicks(ax) ==
    IF ax = "x" THEN << -4 * Grid, 0, 4 * Grid >> ELSE << 0, 4 * Grid, 8 * Grid >>

\* the labels of a tick list: one label per tick, a function of the ticks
LabelsOf(t) == [first |-> t[1], last |-> t[Len(t)], n |-> Len(t)]

\* Layout.__init__
NewLayout(ax, dw, od, l, t) ==
    [ dev_width |-> dw,
      dev_pad_l |-> DevPad,
      dev_pad_r |-> DevPad,
      dev_inner |-> dw - DevPad - DevPad,
      data_range |-> DataRange(ax),
      lim |-> l,
      ticks |-> t,
      dev_opt_dist |-> od,
      labels |-> IF t = None THEN None ELSE Some(LabelsOf(Val(t))),
      shift |-> None ]

\* data lengths are divided by 1000 before they are multiplied with device
\* lengths, which keeps the products within 32 bits
D(v) == IF v >= 0 THEN v \div 1000 ELSE -((-v) \div 1000)

\* floor(abs(log2(p / q))) for p, q > 0
RECURSIVE Halvings(_, _)
Halvings(big, small) == IF big < 2 * small THEN 0 ELSE 1 + Halvings(big \div 2, small)
LogDist(p, q) ==
    LET p1 == Max(p, 1)
        q1 == Max(q, 1)
    IN  IF p1 >= q1 THEN Halvings(p1, q1) ELSE Halvings(q1, p1)

\* one term of Layout.range_penalty: val = num / span against rel_pad =
\* pad / dev_inner
RangeTerm(num, span, pad, inner) ==
    IF D(num) * inner < -(pad * D(span))
      THEN 1000 + ((10 * (-D(num))) \div D(span)) - ((10 * pad) \div inner)
      ELSE IF num < 0
        THEN (1000 * (-D(num)) * inner) \div (D(span) * pad)
        ELSE (10 * D(num)) \div D(span)

\* Layout.range_penalty
RangePenalty(l) ==
    LET x0 == Val(l.lim)[1]
        x1 == Val(l.lim)[2]
    IN  RangeTerm(l.data_range[1] - x0, x1 - x0, l.dev_pad_l, l.dev_inner)
        + RangeTerm(x1 - l.data_range[2], x1 - x0, l.dev_pad_r, l.dev_inner)

\* Layout.tick_penalty; the ticks are equally spaced, so the mean of
\* abs(log2(dev_dt / dev_opt_dist)) is its value for the first two ticks
TickPenalty(l) ==
    IF l.ticks = None \/ Val(l.ticks) = << >> THEN 0
    ELSE IF Len(Val(l.ticks)) < 2 THEN 1000
    ELSE
      LET t == Val(l.ticks)
          x0 == Val(l.lim)[1]
          x1 == Val(l.lim)[2]
          w == l.dev_inner
          sp == D(x1 - x0)
          od == l.dev_opt_dist
          first == IF t[1] >= x0
                     THEN (10 * w * D(t[1] - x0)) \div (sp * od)
                     ELSE 1000 + ((10 * w * D(x0 - t[1])) \div sp)
          last == IF t[Len(t)] <= x1
                     THEN (10 * w * D(x1 - t[Len(t)])) \div (sp * od)
                     ELSE 1000 + ((10 * w * D(t[Len(t)] - x1)) \div sp)
      IN  first + 10 * LogDist(w * D(t[2] - t[1]), sp * od) + last

\* the shift that Layout.label_penalty stores: np.repeat(.5, n)
ShiftOf(l) == [half |-> Len(Val(l.ticks))]

\* Layout.label_penalty with shift = .5 for every label: the first and the
\* last label against the edges of the device, and the largest overlap of
\* two neighbours, d = max(2 - dev_dt / sep, 0) for equally spaced ticks
LabelPenalty(l) ==
    IF l.labels = None THEN 0
    ELSE
      LET t == Val(l.ticks)
          x0 == Val(l.lim)[1]
          x1 == Val(l.lim)[2]
          sp == D(x1 - x0)
          sep == LabelWidth
          pos0 == l.dev_pad_l + ((l.dev_inner * D(t[1] - x0)) \div sp)
          posn == l.dev_pad_l + ((l.dev_inner * D(t[Len(t)] - x0)) \div sp)
          l0 == pos0 - (LabelWidth \div 2)
          rn == posn + (LabelWidth \div 2)
          dev_dt == (l.dev_inner * D(t[2] - t[1])) \div sp
          left == IF l0 < 0 THEN 1000 + ((10 * (-l0)) \div sep) ELSE 0
          right == IF rn > l.dev_width THEN 1000 + ((10 * (rn - l.dev_width)) \div sep) ELSE 0
          d == IF Len(t) < 2 \/ dev_dt >= 2 * sep THEN 0
               ELSE 2000 - ((1000 * dev_dt) \div sep)
      IN  left + right + d

\* Layout.penalty: the value it returns
Penalty(l) == RangePenalty(l) + TickPenalty(l) + LabelPenalty(l)

\* Layout.penalty: the layout after the call, label_penalty has stored the
\* shift unless there are no labels
Scored(l) == IF l.labels = None THEN l ELSE [l EXCEPT !.shift = Some(ShiftOf(l))]

\* _d(pair)
Span(pair) == pair[2] - pair[1]

RECURSIVE GCD(_, _)
GCD(m, n) == IF n = 0 THEN m ELSE GCD(n, m % n)

\* d * p / q for a fraction p / q, computed in lowest terms
TimesFraction(d, p, q) == (d * (p \div GCD(p, q))) \div (q \div GCD(p, q))

\* the width of the second axis with the device widths the wrong way round
SecondWidthSwapped(ls, r, second) ==
    IF second = "y"
      THEN TimesFraction(Span(Val(ls["x"].lim)), ls["x"].dev_width * r[1], ls["y"].dev_width * r[2])
      ELSE TimesFraction(Span(Val(ls["y"].lim)), ls["y"].dev_width * r[2], ls["x"].dev_width * r[1])

\* w = self.y.dev_width / self.x.dev_width * _d(self.x.lim) * aspect for
\* the y axis, w = self.x.dev_width / self.y.dev_width * _d(self.y.lim) /
\* aspect for the x axis
SecondWidth(ls, r, second) ==
    IF second = "y"
      THEN TimesFraction(Span(Val(ls["x"].lim)), ls["y"].dev_width * r[1], ls["x"].dev_width * r[2])
      ELSE TimesFraction(Span(Val(ls["y"].lim)), ls["x"].dev_width * r[2], ls["y"].dev_width * r[1])

\* px**2 + py**2, which orders the scores as math.sqrt(px**2 + py**2) does
Score(px, py) == IF px >= Inf \/ py >= Inf THEN Inf ELSE px * px + py * py

\* a test of fix that never puts the first ordering back
FirstNeverBetter(pxy, pyx) == FALSE

\* if pxy < pyx: the first ordering is put back
FirstIsBetter(pxy, pyx) == pxy < pyx

\* the test of fix with `or` for `and`
EitherFixed(nd) == ~nd["x"].lim \/ ~nd["y"].lim

\* if not self.need_x_lim and not self.need_y_lim
BothFixed(nd) == ~nd["x"].lim /\ ~nd["y"].lim

\* best_x_ticks = self.x.ticks, ..., best_y_lim = self.y.lim
Saved(ls) ==
    [ ax \in Axes |-> [ticks |-> ls[ax].ticks, labels |-> ls[ax].labels,
                       shift |-> ls[ax].shift, lim |-> ls[ax].lim] ]

\* self.x.ticks = best_x_ticks, ..., self.y.lim = best_y_lim
Restored(ls, best) ==
    [ ax \in Axes |-> [ls[ax] EXCEPT !.ticks = best[ax].ticks, !.labels = best[ax].labels,
                                     !.shift = best[ax].shift, !.lim = best[ax].lim] ]

\* the positions of fix at which it calls _fix_one, with the axis and
\* whether a width is passed
FixCalls == {"f_x", "f_y", "f1_x", "f1_y", "f2_y", "f2_x"}
AxisAt(pos) == IF pos \in {"f_x", "f1_x", "f2_x"} THEN "x" ELSE "y"
WidthAt(pos) == IF pos \in {"f1_y", "f2_x"} THEN Some(fx.w) ELSE None

\* the locals of fix before its first assignment
NoFix == [px |-> 0, py |-> 0, pxy |-> 0, pyx |-> 0, w |-> 0, best |-> None,
          ord1 |-> None, ord2 |-> None]

\* Layout2D(x_layout, y_layout) for layouts with or without limits and
\* ticks, and the call of fix up to its first call of _fix_one
CallFix ==
    /\ lpc = "l_idle"
    /\ \E xl \in BOOLEAN, xt \in BOOLEAN, yl \in BOOLEAN, yt \in BOOLEAN,
          od \in OptDists, r \in {None} \cup { Some(q) : q \in Aspects },
          dw \in DevWidths :
        LET ls == [ ax \in Axes |->
                      NewLayout(ax, dw[ax], od,
                                IF (IF ax = "x" THEN xl ELSE yl) THEN Some(SuppliedLim(ax)) ELSE None,
                                IF (IF ax = "x" THEN xt ELSE yt) THEN Some(SuppliedTicks(ax)) ELSE None) ]
            nd == [ ax \in Axes |-> [lim |-> ls[ax].lim = None, ticks |-> ls[ax].ticks = None] ]
        IN  /\ lay' = ls
            /\ lay0' = ls
            /\ need' = nd
            /\ aspect' = r
            /\ IF r = None THEN lpc' = "f_x" /\ fx' = NoFix
               ELSE IF BothFixed(nd) THEN lpc' = "f_raised" /\ fx' = NoFix
               ELSE IF nd["y"].lim THEN lpc' = "f1_x" /\ fx' = NoFix
               ELSE lpc' = "f2_y" /\ fx' = [NoFix EXCEPT !.pxy = Inf]
    /\ one' = None
    /\ seen' = [ ax \in Axes |-> [best |-> None, ret |-> None] ]
    /\ UNCHANGED << pc, fn, arg, ret, genvars >>

\* fix after the call of _fix_one at pos has returned pen and left the
\* layouts ls: the code up to the next call of _fix_one or to the end
Continue(pos, ls, pen, sn) ==
    /\ one' = None
    /\ seen' = [sn EXCEPT ![AxisAt(pos)].ret = Some(pen)]
    /\ CASE pos = "f_x" -> lay' = ls /\ lpc' = "f_y" /\ fx' = fx
         [] pos = "f_y" -> lay' = ls /\ lpc' = "f_done" /\ fx' = fx
         [] pos = "f1_x" ->
              /\ lay' = ls
              /\ lpc' = "f1_y"
              /\ fx' = [fx EXCEPT !.px = pen, !.w = SecondWidth(ls, Val(aspect), "y")]
         [] pos = "f1_y" ->
              LET pxy == Score(fx.px, pen)
              IN  IF need["x"].lim
                    THEN /\ lay' = ls
                         /\ lpc' = "f2_y"
                         /\ fx' = [fx EXCEPT !.py = pen, !.pxy = pxy,
                                             !.best = Some(Saved(ls)), !.ord1 = Some(ls)]
                    ELSE /\ lay' = IF FirstIsBetter(pxy, Inf) THEN Restored(ls, Saved(ls)) ELSE ls
                         /\ lpc' = "f_done"
                         /\ fx' = [fx EXCEPT !.py = pen, !.pxy = pxy, !.pyx = Inf,
                                             !.best = Some(Saved(ls)), !.ord1 = Some(ls)]
         [] pos = "f2_y" ->
              /\ lay' = ls
              /\ lpc' = "f2_x"
              /\ fx' = [fx EXCEPT !.py = pen, !.w = SecondWidth(ls, Val(aspect), "x")]
         [] pos = "f2_x" ->
              LET pyx == Score(pen, fx.py)
              IN  /\ lay' = IF FirstIsBetter(fx.pxy, pyx) THEN Restored(ls, Val(fx.best)) ELSE ls
                  /\ lpc' = "f_done"
                  /\ fx' = [fx EXCEPT !.px = pen, !.pyx = pyx, !.ord2 = Some(ls)]
    /\ UNCHANGED << lay0, need, aspect >>

\* locals that take the data range for the limits of the layout
NewOneFromData(pos, l) ==
    [ pos |-> pos, axis |-> AxisAt(pos), best_penalty |-> Inf, best_ticks |-> l.ticks,
      best_labels |-> l.labels, best_shift |-> l.shift, best_lim |-> Some(l.data_range) ]

\* the locals of _fix_one after `best_lim = layout.lim`
NewOne(pos, l) ==
    [ pos |-> pos, axis |-> AxisAt(pos), best_penalty |-> Inf, best_ticks |-> l.ticks,
      best_labels |-> l.labels, best_shift |-> l.shift, best_lim |-> l.lim ]

\* no candidate has been enumerated for the axis
Unseen(ax) == [seen EXCEPT ![ax] = [best |-> None, ret |-> None]]

\* layout.ticks = best_ticks, ..., layout.lim = best_lim
WithBest(l, o) ==
    [l EXCEPT !.ticks = o.best_ticks, !.labels = o.best_labels,
              !.shift = o.best_shift, !.lim = o.best_lim]

\* a = min(data_range[0], ticks[0]), b = max(data_range[1], ticks[-1]) and
\* the limits centred on them if a width is given
LimFromTicks(l, wd) ==
    LET a0 == Min(l.data_range[1], Val(l.ticks)[1])
        b0 == Max(l.data_range[2], Val(l.ticks)[Len(Val(l.ticks))])
    IN  IF wd # None
          THEN << (a0 + b0 - Val(wd)) \div 2, (a0 + b0 + Val(wd)) \div 2 >>
          ELSE << a0, b0 >>

\* _fix_one(axis, width=width) from its start: the whole call when no ticks
\* are to be generated, and up to the call of the generator otherwise
FixOneEnter ==
    /\ lpc \in FixCalls
    /\ LET ax == AxisAt(lpc)
           wd == WidthAt(lpc)
           l == lay[ax]
           o == NewOne(lpc, l)
       IN  IF wd # None /\ ~need[ax].lim
             THEN /\ lpc' = "f_raised"
                  /\ UNCHANGED << lay, lay0, need, aspect, fx, one, seen, pc, fn, arg, ret, genvars >>
           ELSE IF need[ax].lim /\ need[ax].ticks
             THEN /\ \E down \in FlipSet :
                       IF wd # None
                         THEN TicksForWidth(l.data_range[1], l.data_range[2], Val(wd), down)
                         ELSE TicksForInterval(l.data_range[1], l.data_range[2], TRUE, down)
                  /\ one' = o
                  /\ seen' = Unseen(ax)
                  /\ lpc' = "o_both"
                  /\ UNCHANGED << lay, lay0, need, aspect, fx >>
           ELSE IF need[ax].lim
             THEN LET l1 == [l EXCEPT !.lim = Some(LimFromTicks(l, wd))]
                      l2 == Scored(l1)
                      o2 == [o EXCEPT !.best_penalty = Penalty(l1),
                                      !.best_shift = l2.shift, !.best_lim = l2.lim]
                  IN  /\ Continue(lpc, [lay EXCEPT ![ax] = WithBest(l2, o2)], o2.best_penalty, Unseen(ax))
                      /\ UNCHANGED << pc, fn, arg, ret, genvars >>
           ELSE IF need[ax].ticks
             THEN /\ \E down \in FlipSet :
                       TicksForInterval(Val(l.lim)[1], Val(l.lim)[2], FALSE, down)
                  /\ one' = o
                  /\ seen' = Unseen(ax)
                  /\ lpc' = "o_ticks"
                  /\ UNCHANGED << lay, lay0, need, aspect, fx >>
           ELSE LET l2 == Scored(l)
                    o2 == [o EXCEPT !.best_penalty = Penalty(l), !.best_shift = l2.shift]
                IN  /\ Continue(lpc, [lay EXCEPT ![ax] = WithBest(l2, o2)], o2.best_penalty, Unseen(ax))
                    /\ UNCHANGED << pc, fn, arg, ret, genvars >>

\* the candidate of least penalty so far for the axis, the first one of
\* several, after the layout l has been scored with pen
Better(ax, l, pen) ==
    IF seen[ax].best = None \/ pen < Val(seen[ax].best).penalty
      THEN [seen EXCEPT ![ax].best =
              Some([lim |-> l.lim, ticks |-> l.ticks, labels |-> l.labels,
                    shift |-> l.shift, penalty |-> pen])]
      ELSE seen

\* the generator goes on to its next yield, or the islice is exhausted and
\* the code after the loop runs
NextCandidate(ax, l2, o2, sn) ==
    IF nyield < MaxCand
      THEN /\ IF pc = "i_yield" THEN IntervalResume ELSE WidthResume
           /\ lay' = [lay EXCEPT ![ax] = l2]
           /\ one' = o2
           /\ seen' = sn
           /\ UNCHANGED << lpc, lay0, need, aspect, fx >>
      ELSE /\ Continue(o2.pos, [lay EXCEPT ![ax] = WithBest(l2, o2)], o2.best_penalty, sn)
           /\ UNCHANGED << pc, fn, arg, ret, genvars >>

\* _fix_one, need_lim and need_ticks: one iteration of
\* `for layout.lim, layout.ticks, layout.labels in cand`
FixOneBoth ==
    /\ lpc = "o_both"
    /\ pc \in {"i_yield", "w_yield"}
    /\ LET ax == one.axis
           l1 == [lay[ax] EXCEPT !.lim = Some(lim), !.ticks = Some(ticks),
                                 !.labels = Some(LabelsOf(ticks))]
           l2 == Scored(l1)
           pen == Penalty(l1)
           o2 == IF pen < one.best_penalty
                   THEN [one EXCEPT !.best_penalty = pen, !.best_ticks = l2.ticks,
                                    !.best_labels = l2.labels, !.best_shift = l2.shift,
                                    !.best_lim = l2.lim]
                   ELSE one
       IN  NextCandidate(ax, l2, o2, Better(ax, l2, pen))

\* _fix_one, need_ticks only: one iteration of
\* `for _, layout.ticks, layout.labels in cand`
FixOneTicks ==
    /\ lpc = "o_ticks"
    /\ pc = "i_yield"
    /\ LET ax == one.axis
           l1 == [lay[ax] EXCEPT !.ticks = Some(ticks), !.labels = Some(LabelsOf(ticks))]
           l2 == Scored(l1)
           pen == Penalty(l1)
           o2 == IF pen < one.best_penalty
                   THEN [one EXCEPT !.best_penalty = pen, !.best_shift = l2.shift]
                   ELSE one
       IN  NextCandidate(ax, l2, o2, Better(ax, l2, pen))

LayoutInit ==
    /\ pc = "idle"
    /\ fn = "none"
    /\ arg = 0
    /\ ret = 0
    /\ a = 0
    /\ b = 0
    /\ width = 0
    /\ allow_outside = TRUE
    /\ step = 0
    /\ dx = 0
    /\ ia = 0
    /\ ib = 0
    /\ iter = 0
    /\ all_inside = FALSE
    /\ lim = << 0, 0 >>
    /\ ticks = << >>
    /\ nyield = 0
    /\ lpc = "l_idle"
    /\ NoLayout
    /\ last_subplot = None

LayoutNext ==
    \/ CallFix /\ UNCHANGED last_subplot
    \/ FixOneEnter /\ UNCHANGED last_subplot
    \/ FixOneBoth /\ UNCHANGED last_subplot
    \/ FixOneTicks /\ UNCHANGED last_subplot
    \/ IntervalTop /\ UNCHANGED layvars
    \/ IntervalLoop /\ UNCHANGED layvars
    \/ WidthTop /\ UNCHANGED layvars
    \/ WidthAdd /\ UNCHANGED layvars
    \/ WidthRemove /\ UNCHANGED layvars

LayoutSpec == LayoutInit /\ [][LayoutNext]_vars

\* ----- the candidate yielded last

NTicks == Len(ticks)
First == ticks[1]
Last == ticks[NTicks]
\* d = ticks[1] - ticks[0], as the tests compute the step
StepOf(t) == t[2] - t[1]
TickStep == StepOf(ticks)

\* states where a generator stands at a yield
InsideYield == pc = "i_yield" /\ ~allow_outside
OutsideYield == pc = "i_yield" /\ allow_outside
WidthYield == pc = "w_yield"

\* n <= eps and n < eps for eps = d * _FUDGE, in exact arithmetic
LeqEps(n, d) == n <= d \div FudgeInv
LtEps(n, d) == n <= (d - 1) \div FudgeInv

\* ticks are consecutive integer multiples of the step d
ConsecutiveMultiples(t, d) ==
    /\ d > 0
    /\ t[1] % d = 0
    /\ \A j \in 1..Len(t) : t[j] = t[1] + (j - 1) * d

\* ----- claims

\* C1: for every integer k, negative k included, _scale_length(k) is
\* c[r] * 10^e for the one pair r in 0..3, e with k = 4 * e + r; hence
\* _scale_length(k) < _scale_length(k+1), _scale_length(k+4) is
\* 10 * _scale_length(k), and _scale_length(0..4) are 1, 2, 2.5, 5, 10
C1_ScaleLength ==
    (fn = "_scale_length") =>
        /\ \E e \in -5..2, r \in 0..3 :
              /\ arg = 4 * e + r
              /\ ret = TimesPow10(Mantissa[r + 1], e)
        /\ ret < ScaleLength(arg + 1)
        /\ ScaleLength(arg + 4) = 10 * ret
        /\ (arg = 0 => ret = One)
        /\ (arg = 1 => ret = 2 * One)
        /\ (arg = 2 => 2 * ret = 5 * One)
        /\ (arg = 3 => ret = 5 * One)
        /\ (arg = 4 => ret = 10 * One)

\* C1 witness: a scale length of a negative k that is no multiple of 4
C1_Witness == fn = "_scale_length" /\ arg < 0 /\ arg % 4 = 3 /\ ret = One \div 20

C7_WithinOneStep ==
    OutsideYield =>
        /\ lim[1] <= Min(First, a)
        /\ lim[2] >= Max(Last, b)
        /\ First - TickStep < a /\ a < First + TickStep
        /\ Last - TickStep < b /\ b < Last + TickStep


\* C8: ticks_for_width yields limits of width exactly `width`, ticks that
\* span at most width and fill the limits with no room for a further tick
\* (up to the fudge eps = 1e-6 * step), also when b - a > width
C8_FillsWidth ==
    WidthYield =>
        /\ lim[2] - lim[1] = width
        /\ Last - First <= width
        /\ LeqEps(lim[1] - First, TickStep)
        /\ LtEps(First - lim[1] - TickStep, TickStep)
        /\ LtEps(lim[2] - TickStep - Last, TickStep)
        /\ LeqEps(Last - lim[2], TickStep)

\* C8 witness: a candidate for data wider than the width
C8_Witness == WidthYield /\ b - a > width /\ NTicks >= 3 /\ lim[1] < First

C10_Step ==
    /\ (pc' \in {"i_yield", "w_yield"}) =>
          /\ Len(ticks') >= 2
          /\ ConsecutiveMultiples(ticks', StepOf(ticks'))
          /\ StepOf(ticks') = ScaleLength(step')
          /\ \A j \in 1..(Len(ticks') - 1) : ticks'[j] < ticks'[j + 1]
    /\ (nyield' = nyield + 1 /\ nyield >= 1) => StepOf(ticks') <= StepOf(ticks)
C10_MultiplesOfDecreasingStep == [][C10_Step]_vars

\* C10 witness: a third candidate, of a finer step than the scale the
\* generator started from
C10_Witness == WidthYield /\ nyield >= 3 /\ NTicks >= 3

\* ----- the life of a generator

\* a generator has been called and stands somewhere in its `while True`
GeneratorRunning ==
    pc \in {"i_top", "i_loop", "i_yield", "w_top", "w_add", "w_rem", "w_yield"}

\* the consumer has taken its MaxCand candidates and asks for no more
ConsumerDone == pc \in {"i_yield", "w_yield"} /\ nyield >= MaxCand

\* the next step size lies outside of what the model follows
BeyondModel ==
    \/ /\ pc = "i_top"
       /\ ~(/\ step >= -MaxDown
             /\ step <= MaxUp + 4
             /\ (b - a) \div ScaleLength(step) + 3 <= TickBound)
    \/ /\ pc = "w_top"
       /\ ~(step - 1 >= -MaxDown
             /\ Max(b - a, width) \div ScaleLength(step - 1) + 3 <= TickBound)

FixDone == lpc = "f_done"

\* fix has raised ValueError
FixRaised == lpc = "f_raised"

\* lim, ticks, labels and shift of a layout
Chosen(l) == << l.lim, l.ticks, l.labels, l.shift >>

\* C12: fix(aspect=r) for two layouts with fixed limits raises ValueError,
\* and only then, before any field of either layout has changed and before
\* any call of _fix_one; with aspect=None nothing is raised
C12_RaisesBeforeChange ==
    /\ FixRaised => (aspect # None /\ ~need["x"].lim /\ ~need["y"].lim
                      /\ lay = lay0 /\ one = None
                      /\ \A ax \in Axes : seen[ax].ret = None)
    /\ (lpc \notin {"off", "l_idle"} /\ aspect # None
          /\ ~need["x"].lim /\ ~need["y"].lim) => FixRaised
    /\ (lpc \notin {"off", "l_idle"} /\ aspect = None) => ~FixRaised

\* C12 witness: fix has raised for two layouts with fixed limits, one of
\* them without ticks
C12_Witness ==
    FixRaised /\ aspect # None /\ need["x"].ticks /\ ~need["y"].ticks /\ lay["x"].ticks = None

\* r * y.dev_width / x.dev_width in lowest terms
LockFraction ==
    LET p == Val(aspect)[1] * lay["y"].dev_width
        q == Val(aspect)[2] * lay["x"].dev_width
    IN  << p \div GCD(p, q), q \div GCD(p, q) >>

\* C13: after fix(aspect=r) has returned, (y.lim span) / (x.lim span) is
\* r * y.dev_width / x.dev_width, whichever ordering was kept and whether
\* ticks were supplied or generated
C13_AspectLock ==
    (FixDone /\ aspect # None) =>
        Span(Val(lay["y"].lim)) * LockFraction[2] = Span(Val(lay["x"].lim)) * LockFraction[1]

\* C13 witness: the second ordering was kept, with generated ticks on both
\* axes and limits that differ from those of the first ordering
C13_Witness ==
    /\ FixDone /\ aspect # None
    /\ need["x"].lim /\ need["x"].ticks /\ need["y"].lim /\ need["y"].ticks
    /\ lay = Val(fx.ord2)
    /\ lay["x"].lim # Val(fx.ord1)["x"].lim

\* the combined score of a pair of layouts, from the penalties of the
\* layouts themselves
ScoreOf(ls) == Score(Penalty(ls["x"]), Penalty(ls["y"]))

\* C14: with no fixed limits fix(aspect=r) plans both orderings and ends in
\* the complete result of one of them, lim, ticks, labels and shift of both
\* axes, whose combined score is not larger than that of the other
C14_BestOrdering ==
    (FixDone /\ aspect # None /\ need["x"].lim /\ need["y"].lim) =>
        /\ fx.ord1 # None /\ fx.ord2 # None
        /\ \/ /\ \A ax \in Axes : Chosen(lay[ax]) = Chosen(Val(fx.ord1)[ax])
              /\ ScoreOf(Val(fx.ord1)) <= ScoreOf(Val(fx.ord2))
           \/ /\ \A ax \in Axes : Chosen(lay[ax]) = Chosen(Val(fx.ord2)[ax])
              /\ ScoreOf(Val(fx.ord2)) <= ScoreOf(Val(fx.ord1))

\* C14 witness: the first ordering had the strictly lower score and was put
\* back over the different result of the second
C14_Witness ==
    /\ FixDone /\ aspect # None /\ need["x"].lim /\ need["y"].lim
    /\ ScoreOf(Val(fx.ord1)) < ScoreOf(Val(fx.ord2))
    /\ lay = Val(fx.ord1)
    /\ \A ax \in Axes : Chosen(Val(fx.ord1)[ax]) # Chosen(Val(fx.ord2)[ax])

\* C15: fix() without aspect leaves each axis with lim, ticks, labels and
\* shift of the candidate of least penalty among those enumerated for it,
\* and the penalty _fix_one returned is the penalty of the layout it left
C15_KeepsBest ==
    (FixDone /\ aspect = None) =>
        \A ax \in Axes :
            /\ need[ax].ticks =>
                  /\ seen[ax].best # None
                  /\ lay[ax].lim = Val(seen[ax].best).lim
                  /\ lay[ax].ticks = Val(seen[ax].best).ticks
                  /\ lay[ax].labels = Val(seen[ax].best).labels
                  /\ lay[ax].shift = Val(seen[ax].best).shift
            /\ Penalty(lay[ax]) = Val(seen[ax].ret)

(***************************************************************************)
(* canvas._fixup_lim (canvas.py:38-65).  Python values are records with a  *)
(* type tag t and a value v; an argument is a record with the kind of the  *)
(* object passed (tuple, list, a scalar, None) and its items.  A number is  *)
(* held in model units: v = One is the number 1.                           *)
(***************************************************************************)
MaxLim == 2

PyNone == [t |-> "none", v |-> 0]

PyInt(n) == [t |-> "int", v |-> n]

PyFloat(n) == [t |-> "float", v |-> n]

\* the text of a number, which float() parses
PyNumStr(n) == [t |-> "numstr", v |-> n]

\* any other text, on which float() raises ValueError
PyStr == [t |-> "str", v |-> 0]

PyTuple(items) == [kind |-> "tuple", items |-> items]

PyList(items) == [kind |-> "list", items |-> items]

NoneArg == [kind |-> "none", items |-> << >>]

Scalar(x) == [kind |-> "scalar", items |-> << x >>]

\* tuple(lim) succeeds on a tuple or a list (canvas.py:42)
Iterable(l) == l.kind \in {"tuple", "list"}

\* float(x) succeeds (canvas.py:52-53)
CanFloat(x) == x.t \in {"int", "float", "numstr"}

Float(x) == [t |-> "float", v |-> x.v]

\* min(x, 0) and max(x, 0) of Python: the first of the least / largest
PyMin(x, y) == IF y.v < x.v THEN y ELSE x

PyMax(x, y) == IF y.v > x.v THEN y ELSE x

Return(lo, hi) == [kind |-> "return", val |-> << lo, hi >>]

Raise(exc) == [kind |-> exc, val |-> << >>]

\* `tmpl % lim` of canvas.py:59 fills the two %s only from a tuple of two;
\* any other object is one argument for two places: TypeError
FormatsAsPair(l) == l.kind = "tuple" /\ Len(l.items) = 2

FixupLim(lim0, data) ==
    LET lim1 == IF lim0.kind = "none" /\ data # None
                THEN PyTuple(<< PyNone, PyNone >>) ELSE lim0
    IN  IF ~(Iterable(lim1) /\ Len(lim1.items) = 2)
        THEN Raise("TypeError")
        ELSE
          LET a0 == lim1.items[1]
              b0 == lim1.items[2]
              a1 == IF a0.t = "none" /\ data # None
                    THEN PyFloat(Val(data)[1]) ELSE a0
              b1 == IF b0.t = "none" /\ data # None
                    THEN PyFloat(Val(data)[2]) ELSE b0
          IN  IF ~(CanFloat(a1) /\ CanFloat(b1))
              THEN Raise("TypeError")
              ELSE
                LET af == Float(a1)
                    bf == Float(b1)
                IN  IF bf.v < af.v
                    THEN IF FormatsAsPair(lim1) THEN Raise("ValueError")
                         ELSE Raise("TypeError")
                    ELSE IF af.v # bf.v THEN Return(af, bf)
                    ELSE IF af.v = 0 THEN Return(PyInt(-One), PyInt(One))
                    ELSE Return(PyMin(af, PyInt(0)), PyMax(af, PyInt(0)))

LimValues == {n * One : n \in (-MaxLim)..MaxLim}

LimItems ==
    {PyNone, PyStr}
      \cup {PyInt(n) : n \in LimValues}
      \cup {PyFloat(n) : n \in LimValues}
      \cup {PyNumStr(n) : n \in LimValues}

LimArgs ==
    {NoneArg, Scalar(PyInt(One)), PyTuple(<< PyInt(0) >>),
     PyTuple(<< PyInt(0), PyInt(One), PyInt(2 * One) >>)}
      \cup {PyTuple(<< x, y >>) : x \in LimItems, y \in LimItems}
      \cup {PyList(<< x, y >>) : x \in LimItems, y \in LimItems}

\* the data of the plot: absent, or its least and largest value
DataArgs ==
    {None} \cup {Some(<< lo, hi >>) : lo \in {-One, 0}, hi \in {0, One}}

CallFixupLim ==
    /\ pc = "idle"
    /\ \E l \in LimArgs, d \in DataArgs :
        /\ arg' = [lim |-> l, data |-> d]
        /\ ret' = FixupLim(l, d)
    /\ fn' = "_fixup_lim"
    /\ pc' = "returned"
    /\ UNCHANGED genvars
    /\ UNCHANGED layvars

FixupNext == CallFixupLim

FixupSpec == Init /\ [][FixupNext]_vars

FixupReturned == pc = "returned" /\ fn = "_fixup_lim"

\* the argument is a pair of numbers
PairOfNumbers(l) ==
    /\ Iterable(l)
    /\ Len(l.items) = 2
    /\ \A i \in 1..2 : l.items[i].t \in {"int", "float"}

\* == of Python on two pairs of numbers: by value, whatever the types
SamePair(p, q) == p[1].v = q[1].v /\ p[2].v = q[2].v

\* C16: _fixup_lim on a pair (a, b) of numbers returns (a, b) when a < b,
\* (-1, 1) when a == b == 0, (min(a, 0), max(a, 0)) for another degenerate
\* pair, raises ValueError when b < a and TypeError when the argument is
\* not a pair of numbers; a returned (lo, hi) has lo < hi and
\* lo <= a <= b <= hi, and _fixup_lim of it is the same pair.
C16_FixupLim ==
    (FixupReturned /\ arg.data = None) =>
        LET l  == arg.lim
            x  == l.items[1].v
            y  == l.items[2].v
        IN  /\ PairOfNumbers(l) =>
                /\ x < y => ret.kind = "return"
                              /\ ret.val[1].v = x /\ ret.val[2].v = y
                /\ (x = y /\ x = 0) => ret.kind = "return"
                              /\ ret.val[1].v = -One /\ ret.val[2].v = One
                /\ (x = y /\ x # 0) => ret.kind = "return"
                              /\ ret.val[1].v = Min(x, 0)
                              /\ ret.val[2].v = Max(x, 0)
                /\ y < x => ret.kind = "ValueError"
                /\ ret.kind = "return" =>
                      /\ ret.val[1].v < ret.val[2].v
                      /\ ret.val[1].v <= x /\ x <= y /\ y <= ret.val[2].v
                      /\ LET again == FixupLim(PyTuple(ret.val), None)
                         IN  again.kind = "return"
                               /\ SamePair(again.val, ret.val)
            /\ ~PairOfNumbers(l) => ret.kind = "TypeError"

\* the same contract for arguments that are tuples and hold no text
C16_TupleContract ==
    (/\ FixupReturned
     /\ arg.data = None
     /\ arg.lim.kind # "list"
     /\ \A i \in 1..Len(arg.lim.items) : arg.lim.items[i].t # "numstr")
        => C16_FixupLim

\* a list of two numbers in the wrong order has been passed
C16_ListWrongOrder ==
    /\ FixupReturned
    /\ arg.lim.kind = "list"
    /\ PairOfNumbers(arg.lim)
    /\ arg.lim.items[2].v < arg.lim.items[1].v
    /\ ret.kind = "TypeError"

(***************************************************************************)
(* Canvas.draw_axes (canvas.py:626-694) with Canvas._layout_labels         *)
(* (canvas.py:557-624) and the candidate generators of axis.py:33-99.      *)
(* The penalty of a candidate depends on the text extents that the cairo   *)
(* context reports; it is a finite number for every candidate, and the     *)
(* loops keep the candidate of least penalty, so any candidate yielded can *)
(* be the one chosen.                                                      *)
(***************************************************************************)

\* round(x / dx) of Python: to the nearest whole number, a tie to the even
Round(x, s) ==
    LET f == x \div s
        r == x % s
    IN  IF 2 * r < s THEN f
        ELSE IF 2 * r > s THEN f + 1
        ELSE IF f % 2 = 0 THEN f ELSE f + 1

Candidate(lo, hi, t) == [lim |-> << lo, hi >>, ticks |-> t]

\* the yields of axis._try_single for one spacing s (axis.py:41-50)
TrySingleAt(l, s, fl) ==
    LET i0 == Floor(l[1], s, fl[1])
        i1 == Ceil(l[2], s, fl[2])
        t  == TickList(i0, i1, s)
        n  == i1 - i0 + 1
    IN  {Candidate(i0 * s, i1 * s, t)}
          \cup (IF n > 2
                THEN {Candidate(l[1], i1 * s, SubSeq(t, 2, n)),
                      Candidate(i0 * s, l[2], SubSeq(t, 1, n - 1))}
                ELSE {})
          \cup (IF n > 3
                THEN {Candidate(l[1], l[2], SubSeq(t, 2, n - 1))}
                ELSE {})

\* axis._try_single(lim): the candidates of the four spacings k0-3 .. k0
TrySingle(l, fl, dn) ==
    LET k0 == SmallestScaleLargerThan(l[2] - l[1], dn)
    IN  UNION {TrySingleAt(l, ScaleLength(k), fl) : k \in (k0 - 3)..k0}

\* the test of axis.py:82 left out
CoversAlways(l, c) == TRUE

\* not (a > lim[0] or b < lim[1]) (axis.py:82)
Covers(l, c) == ~(c[1] > l[1] \/ c[2] < l[2])

\* the five ranges of axis.py:62-79 for the spacing s
SecondCandidates(l, length, s, fl) ==
    LET mid == (l[1] + l[2]) \div 2
        h   == length \div 2
        r   == Round(mid, s) * s
        m   == ((2 * Floor(mid, s, fl[1]) + 1) * s) \div 2
        fa  == Floor(mid - h, s, fl[1]) * s
        cb  == Ceil(mid + h, s, fl[2]) * s
    IN  { << mid - h, mid + h >>,
          << r - h, r + h >>,
          << m - h, m + h >>,
          << fa, fa + length >>,
          << cb - length, cb >> }

\* axis._try_second(lim, length): the loop over the candidates follows the
\* loop over k, so the ranges and the ticks are those of the last spacing,
\* _scale_length(k0); ok is FALSE when the assertion of axis.py:53 fails
TrySecond(l, length, fl, dn) ==
    IF ~(l[2] - l[1] <= length)
      THEN [ok |-> FALSE, cands |-> {}]
      ELSE
        LET s == ScaleLength(SmallestScaleLargerThan(l[2] - l[1], dn))
        IN  [ok |-> TRUE,
             cands |->
               { Candidate(c[1], c[2],
                           TickList(Ceil(c[1], s, fl[2]),
                                    Floor(c[2], s, fl[1]), s)) :
                   c \in {cc \in SecondCandidates(l, length, s, fl) :
                            Covers(l, cc)} }]

\* the size of the axes area, width : height
AxesSize == << 5, 4 >>

\* q = aspect * self.width / self.height (canvas.py:598), a fraction
AspectQ(r) == << r[1] * AxesSize[1], r[2] * AxesSize[2] >>

\* x_data_lim[1] - x_data_lim[0] >= (y_data_lim[1] - y_data_lim[0]) * q
XFirst(xl, yl, q) == (xl[2] - xl[1]) * q[2] >= (yl[2] - yl[1]) * q[1]

\* the length of the second axis with * and / exchanged
SecondLengthSwapped(first, q, xfirst) ==
    IF xfirst THEN TimesFraction(first[2] - first[1], q[1], q[2])
              ELSE TimesFraction(first[2] - first[1], q[2], q[1])

\* length = (x_axis_lim[1] - x_axis_lim[0]) / q for the y axis (axis.py:92),
\* length = (y_axis_lim[1] - y_axis_lim[0]) * q for the x axis (axis.py:97)
SecondLength(first, q, xfirst) ==
    IF xfirst THEN TimesFraction(first[2] - first[1], q[2], q[1])
              ELSE TimesFraction(first[2] - first[1], q[1], q[2])

\* the quotient (x_axis_lim[1] - x_axis_lim[0]) / q as the floats give it:
\* where it equals the span of the data limits l of the second axis, so
\* that the assertion of axis.py:53 holds with equality, the rounding of
\* the division decides (rd), and the quotient may fall below that span
RoundedDown(length, first, l, q, rd) ==
    IF rd /\ (first[2] - first[1]) * q[2] = (l[2] - l[1]) * q[1]
      THEN length - 1
      ELSE length

\* axis._try_pairs(x_data_lim, y_data_lim, q); fl[3] is the rounding of
\* the length of the second axis
TryPairs(xl, yl, q, fl, dn) ==
    IF XFirst(xl, yl, q)
      THEN
        LET firsts == TrySingle(xl, fl, dn)
            Second(c) == TrySecond(yl, RoundedDown(SecondLength(c.lim, q, TRUE),
                                                   c.lim, yl, q, fl[3]), fl, dn)
        IN  [ok |-> \A c \in firsts : Second(c).ok,
             cands |-> UNION {{[x |-> c, y |-> d] : d \in Second(c).cands} :
                                c \in firsts}]
      ELSE
        LET firsts == TrySingle(yl, fl, dn)
            Second(c) == TrySecond(xl, SecondLength(c.lim, q, FALSE), fl, dn)
        IN  [ok |-> \A c \in firsts : Second(c).ok,
             cands |-> UNION {{[x |-> d, y |-> c] : d \in Second(c).cands} :
                                c \in firsts}]

\* the candidates among which Canvas._layout_labels chooses
LayoutLabels(xl, yl, r, fl, dn) ==
    IF r = None
      THEN [ok |-> TRUE,
            cands |-> {[x |-> c, y |-> d] :
                         c \in TrySingle(xl, fl, dn),
                         d \in TrySingle(yl, fl, dn)}]
      ELSE TryPairs(xl, yl, AspectQ(Val(r)), fl, dn)

\* draw_axes has set the limits of the axes to those of the candidate c
Drawn(c) ==
    [kind |-> "return", x_lim |-> c.x.lim, y_lim |-> c.y.lim,
     x_ticks |-> c.x.ticks, y_ticks |-> c.y.ticks]

\* draw_axes has raised the exception exc
Failed(exc) ==
    [kind |-> exc, x_lim |-> << 0, 0 >>, y_lim |-> << 0, 0 >>,
     x_ticks |-> << >>, y_ticks |-> << >>]

AsTuple(l) == PyTuple(<< PyFloat(l[1]), PyFloat(l[2]) >>)

\* the outcomes of draw_axes(x_lim, y_lim, aspect=r)
DrawAxes(xr, yr, r, fl, dn) ==
    LET fxl == FixupLim(AsTuple(xr), None)
        fyl == FixupLim(AsTuple(yr), None)
    IN  IF fxl.kind # "return" THEN {Failed(fxl.kind)}
        ELSE IF fyl.kind # "return" THEN {Failed(fyl.kind)}
        ELSE
          LET ll == LayoutLabels(<< fxl.val[1].v, fxl.val[2].v >>,
                                 << fyl.val[1].v, fyl.val[2].v >>, r, fl, dn)
          IN  IF ~ll.ok THEN {Failed("AssertionError")}
              ELSE IF ll.cands = {} THEN {Failed("UnboundLocalError")}
              ELSE {Drawn(c) : c \in ll.cands}

\* the limits asked for
RequestedLims ==
    { << 0, One >>, << 0, 0 >>, << One, One >>, << -One, 3 * One >>,
      << One \div 10, (9 * One) \div 10 >>,
      << -((3 * One) \div 10), -(One \div 4) >>,
      << 0, (87 * One) \div 80 >>, << 0, (87 * One) \div 100 >>,
      << One, 0 >> }

\* the aspect ratios asked for, as fractions
AxesAspects == { << 1, 1 >>, << 1, 2 >>, << 2, 1 >> }

CallDrawAxes ==
    /\ pc = "idle"
    /\ \E xr \in RequestedLims, yr \in RequestedLims,
          r \in {None} \cup {Some(f) : f \in AxesAspects},
          f1 \in FlipSet, f2 \in FlipSet, rd \in FlipSet, dn \in BOOLEAN :
        /\ arg' = [x_lim |-> xr, y_lim |-> yr, aspect |-> r,
                   flips |-> << f1, f2, rd, dn >>]
        /\ ret' \in DrawAxes(xr, yr, r, << f1, f2, rd >>, dn)
    /\ fn' = "draw_axes"
    /\ pc' = "returned"
    /\ UNCHANGED genvars
    /\ UNCHANGED layvars

AxesNext == CallDrawAxes

AxesSpec == Init /\ [][AxesNext]_vars

AxesReturned == pc = "returned" /\ fn = "draw_axes"

\* the limits asked for are in order, lo <= hi
InOrder == arg.x_lim[1] <= arg.x_lim[2] /\ arg.y_lim[1] <= arg.y_lim[2]

C17_ExactQuotient ==
    (AxesReturned /\ InOrder /\ ~arg.flips[3]) =>
        /\ ret.kind = "return"
        /\ ret.x_lim[1] <= arg.x_lim[1] /\ arg.x_lim[2] <= ret.x_lim[2]
        /\ ret.y_lim[1] <= arg.y_lim[1] /\ arg.y_lim[2] <= ret.y_lim[2]

\* an aspect ratio and a degenerate x range: the axes are strictly wider
C17_Witness ==
    /\ AxesReturned
    /\ arg.aspect # None
    /\ arg.x_lim[1] = arg.x_lim[2]
    /\ arg.y_lim[1] < arg.y_lim[2]
    /\ ret.kind = "return"
    /\ ret.x_lim[1] < arg.x_lim[1] /\ arg.x_lim[2] < ret.x_lim[2]

\* C18: with an aspect ratio r the limits chosen by draw_axes satisfy
\* (x span) / (y span) == r * width / height, for every pair of candidates
\* and whichever axis is planned first.
C18_AspectRatio ==
    (AxesReturned /\ arg.aspect # None /\ ret.kind = "return") =>
        LET q == AspectQ(Val(arg.aspect))
        IN  (ret.x_lim[2] - ret.x_lim[1]) * q[2]
              = (ret.y_lim[2] - ret.y_lim[1]) * q[1]

\* an aspect ratio other than 1 with the y axis planned first
C18_Witness ==
    /\ AxesReturned
    /\ arg.aspect = Some(<< 2, 1 >>)
    /\ InOrder
    /\ ret.kind = "return"
    /\ ~XFirst(arg.x_lim, arg.y_lim, AspectQ(Val(arg.aspect)))
    /\ arg.x_lim[1] < arg.x_lim[2]

(***************************************************************************)
(* coords.Linear.try_single (coords.py:38-110).  The generator is given by *)
(* the sequence of its yields and by whether it ends in an exception.      *)
(***************************************************************************)
Yields(c, raised) == [cands |-> c, raised |-> raised]

\* the test of coords.py:46 left out
LengthAlwaysFits(lo, hi, length, flip) == FALSE

\* abs((b - a) / length - 1) > 1e-3 for length > 0; where the two sides are
\* equal the rounded quotient decides
LengthMismatch(lo, hi, length, flip) ==
    LET dev == IF hi - lo >= length THEN (hi - lo) - length
               ELSE length - (hi - lo)
    IN  \/ dev > length \div 1000
        \/ dev = length \div 1000 /\ length % 1000 = 0 /\ flip

\* the loop of coords.py:50-56 from spacing k on, for fixed limits
RECURSIVE FixedFrom(_, _, _, _)
FixedFrom(l, k, k0, fl) ==
    IF k >= k0 THEN << >>
    ELSE
      LET s  == ScaleLength(k)
          i0 == Ceil(l[1], s, fl[2])
          i1 == Floor(l[2], s, fl[1])
      IN  (IF i1 - i0 + 1 > 1
             THEN << Candidate(l[1], l[2], TickList(i0, i1, s)) >>
             ELSE << >>)
            \o FixedFrom(l, k + 1, k0, fl)

\* the while loop of coords.py:78-88: the result is << a, b, i0, i1 >>
RECURSIVE Extend(_, _, _, _, _, _)
Extend(lo, hi, i0, i1, s, length) ==
    IF i1 * s - hi < lo - i0 * s
      THEN IF (i1 + 1) * s - lo > length
             THEN << lo, hi, i0, i1 >>
             ELSE Extend(lo, (i1 + 1) * s, i0, i1 + 1, s, length)
      ELSE IF hi - (i0 - 1) * s > length
             THEN << lo, hi, i0, i1 >>
             ELSE Extend((i0 - 1) * s, hi, i0 - 1, i1, s, length)

\* a, b, i0, i1 of one spacing (coords.py:65-88); a and b are those that
\* the spacing before has left
Placed(lo, hi, s, length, fl) ==
    LET n == Floor(length, s, fl[1])
    IN  IF 0 <= lo /\ hi <= length THEN << 0, n * s, 0, n >>
        ELSE IF -length <= lo /\ hi <= 0 THEN << -(n * s), 0, -n, 0 >>
        ELSE Extend(lo, hi, Ceil(lo, s, fl[2]), Floor(hi, s, fl[1]),
                    s, length)

\* the loop of coords.py:62-96 from spacing k on, for a given length
RECURSIVE LengthFrom(_, _, _, _, _, _)
LengthFrom(lo, hi, k, k0, length, fl) ==
    IF k >= k0 THEN Yields(<< >>, FALSE)
    ELSE
      LET s   == ScaleLength(k)
          r   == Placed(lo, hi, s, length, fl)
          d   == length - (r[2] - r[1])
          lo2 == IF d > 0 THEN r[1] - d \div 2 ELSE r[1]
          hi2 == IF d > 0 THEN r[2] + d \div 2 ELSE r[2]
      IN  IF ~(r[1] <= r[3] * s /\ r[3] * s <= r[4] * s /\ r[4] * s <= r[2])
            THEN Yields(<< >>, TRUE)
            ELSE
              LET rest == LengthFrom(lo2, hi2, k + 1, k0, length, fl)
                  this == IF r[4] - r[3] + 1 > 1
                            THEN << Candidate(lo2, hi2,
                                              TickList(r[3], r[4], s)) >>
                            ELSE << >>
              IN  Yields(this \o rest.cands, rest.raised)

\* the loop of coords.py:100-110 from spacing k on
RECURSIVE FreeFrom(_, _, _, _)
FreeFrom(l, k, k0, fl) ==
    IF k > k0 THEN << >>
    ELSE
      LET s  == ScaleLength(k)
          i0 == Floor(l[1], s, fl[1])
          i1 == Ceil(l[2], s, fl[2])
          t  == TickList(i0, i1, s)
          n  == i1 - i0 + 1
      IN  << Candidate(i0 * s, i1 * s, t) >>
            \o (IF n > 2
                  THEN << Candidate(l[1], i1 * s, SubSeq(t, 2, n)),
                          Candidate(i0 * s, l[2], SubSeq(t, 1, n - 1)) >>
                  ELSE << >>)
            \o (IF n > 3
                  THEN << Candidate(l[1], l[2], SubSeq(t, 2, n - 1)) >>
                  ELSE << >>)
            \o FreeFrom(l, k + 1, k0, fl)

\* Linear(data_range, lim=fixed).try_single(length=length)
LinearTrySingle(data_range, fixed, length, fl, dn) ==
    IF fixed # None
      THEN
        LET l == Val(fixed)
        IN  IF length # None
                 /\ LengthMismatch(l[1], l[2], Val(length), fl[3])
              THEN Yields(<< >>, FALSE)
              ELSE
                LET k0 == SmallestScaleLargerThan(l[2] - l[1], dn)
                IN  Yields(FixedFrom(l, k0 - 5, k0, fl), FALSE)
      ELSE IF length # None
        THEN
          IF data_range[2] - data_range[1] > Val(length)
            THEN Yields(<< >>, FALSE)
            ELSE
              LET k0 == SmallestScaleLargerThan(Val(length), dn)
              IN  LengthFrom(data_range[1], data_range[2], k0 - 5, k0,
                             Val(length), fl)
      ELSE
        LET k0 == SmallestScaleLargerThan(data_range[2] - data_range[1], dn)
        IN  Yields(FreeFrom(data_range, k0 - 4, k0, fl), FALSE)

\* data ranges (a0, b0), a0 < b0, on the grid of 0.05, between 0 and 1.9
\* and mirrored below 0
DataPoints == {0, 2, 5, 6, 10, 18, 20, 21, 22, 27, 38}

DataRanges ==
    { << i * Grid, j * Grid >> : i \in DataPoints, j \in DataPoints }
      \cup { << -(j * Grid), -(i * Grid) >> : i \in DataPoints, j \in DataPoints }

\* the lengths asked for: none, 1, 1.05, 1.1
Lengths == {None, Some(One), Some(21 * Grid), Some(22 * Grid)}

\* the fixed limits: none, (0.05, 1.05), (0, 1)
FixedLims == {None, Some(<< Grid, 21 * Grid >>), Some(<< 0, One >>)}

CallTrySingle ==
    /\ pc = "idle"
    /\ \E dr \in {r \in DataRanges : r[1] < r[2]},
          fixed \in FixedLims, length \in Lengths,
          f1 \in FlipSet, f2 \in FlipSet, f3 \in FlipSet, dn \in BOOLEAN :
        /\ arg' = [data_range |-> dr, lim |-> fixed, length |-> length,
                   flips |-> << f1, f2, f3, dn >>]
        /\ ret' = LinearTrySingle(dr, fixed, length, << f1, f2, f3 >>, dn)
    /\ fn' = "try_single"
    /\ pc' = "returned"
    /\ UNCHANGED genvars
    /\ UNCHANGED layvars

CoordsNext == CallTrySingle

CoordsSpec == Init /\ [][CoordsNext]_vars

TrySingleReturned == pc = "returned" /\ fn = "try_single"

\* more than one tick, and the ticks inside the range
TicksInRange(c) ==
    /\ Len(c.ticks) > 1
    /\ c.lim[1] <= c.ticks[1]
    /\ c.ticks[Len(c.ticks)] <= c.lim[2]

\* C19: without fixed limits and with b0 - a0 <= length,
\* try_single(length=length) yields at least one candidate, and every
\* candidate has more than one tick, covers the data, contains its ticks
\* and has b - a == length.
C19_LengthCovers ==
    (/\ TrySingleReturned
     /\ arg.lim = None
     /\ arg.length # None
     /\ arg.data_range[2] - arg.data_range[1] <= Val(arg.length)) =>
        /\ ~ret.raised
        /\ Len(ret.cands) >= 1
        /\ \A i \in 1..Len(ret.cands) :
             LET c == ret.cands[i]
             IN  /\ TicksInRange(c)
                 /\ c.lim[1] <= arg.data_range[1]
                 /\ arg.data_range[2] <= c.lim[2]
                 /\ c.lim[2] - c.lim[1] = Val(arg.length)

\* the rest of the same claim: everything but the covering of the data
C19_AllButCovering ==
    (/\ TrySingleReturned
     /\ arg.lim = None
     /\ arg.length # None
     /\ arg.data_range[2] - arg.data_range[1] <= Val(arg.length)) =>
        /\ ~ret.raised
        /\ Len(ret.cands) >= 1
        /\ \A i \in 1..Len(ret.cands) :
             LET c == ret.cands[i]
             IN  /\ TicksInRange(c)
                 /\ c.lim[2] - c.lim[1] = Val(arg.length)

\* the data lie in [0, length] or in [-length, 0] when try_single is called
FirstBranches ==
    \/ 0 <= arg.data_range[1] /\ arg.data_range[2] <= Val(arg.length)
    \/ -Val(arg.length) <= arg.data_range[1] /\ arg.data_range[2] <= 0

\* the covering holds in the third branch, data that lie elsewhere
C19_ElsewhereCovers ==
    (/\ TrySingleReturned
     /\ arg.lim = None
     /\ arg.length # None
     /\ arg.data_range[2] - arg.data_range[1] <= Val(arg.length)
     /\ ~FirstBranches) => C19_LengthCovers

\* C20: with fixed limits lim = (a, b), try_single() yields at least one
\* candidate whatever the data range, every candidate has the range lim,
\* more than one tick and its ticks inside [a, b]; try_single(length=L)
\* yields nothing when b - a differs from L by more than 0.1 percent.
C20_FixedLimits ==
    (TrySingleReturned /\ arg.lim # None) =>
        LET l == Val(arg.lim)
        IN  /\ ~ret.raised
            /\ arg.length = None => Len(ret.cands) >= 1
            /\ \A i \in 1..Len(ret.cands) :
                 /\ ret.cands[i].lim = l
                 /\ TicksInRange(ret.cands[i])
            /\ (arg.length # None /\
                  (((l[2] - l[1]) - Val(arg.length)) * 1000 > Val(arg.length)
                   \/ (Val(arg.length) - (l[2] - l[1])) * 1000 > Val(arg.length)))
               => Len(ret.cands) = 0

\* fixed limits (0, 1), data outside them, no length: candidates yielded
C20_Witness ==
    /\ TrySingleReturned
    /\ arg.lim = Some(<< 0, One >>)
    /\ arg.length = None
    /\ arg.data_range[1] > One
    /\ Len(ret.cands) > 1

\* fixed limits (0, 1) and length 1.1: nothing yielded
C20_WitnessMismatch ==
    /\ TrySingleReturned
    /\ arg.lim = Some(<< 0, One >>)
    /\ arg.length = Some(22 * Grid)
    /\ Len(ret.cands) = 0

(***************************************************************************)
(* coords.ranges_and_ticks (coords.py:170-232).  The penalties come from   *)
(* the label_width and label_height callbacks of the caller; they are      *)
(* finite, so any pair of candidates that the loops visit can be the pair  *)
(* returned, and with no pair visited the return statement finds           *)
(* best_x_range unbound.                                                   *)
(***************************************************************************)

\* w : h of the call
RangesSize == << 5, 4 >>

\* the length of the second axis with * and / exchanged
RangesLengthSwapped(span, r, xfirst) ==
    IF xfirst
      THEN TimesFraction(span, r[2] * RangesSize[2], r[1] * RangesSize[1])
      ELSE TimesFraction(span, r[1] * RangesSize[1], r[2] * RangesSize[2])

\* l = (x_range[1] - x_range[0]) * aspect * w / h for the y axis
\* (coords.py:199), l = (y_range[1] - y_range[0]) / aspect / w * h for the
\* x axis (coords.py:218)
RangesLength(span, r, xfirst) ==
    IF xfirst
      THEN TimesFraction(span, r[1] * RangesSize[1], r[2] * RangesSize[2])
      ELSE TimesFraction(span, r[2] * RangesSize[2], r[1] * RangesSize[1])

Elements(s) == {s[i] : i \in 1..Len(s)}

\* one of the two nested loops of coords.py:193-230: the candidates
\* `outer` of the first axis were planned freely, the second axis `second`
\* is planned with the length that the range of the first gives;
\* tried[<< s, l >>] is what try_single(length=l) yields on the scale s
NestedLoop(outer, second, tried, r, xfirst) ==
    LET Inner(c) ==
            tried[<< second, RangesLength(c.lim[2] - c.lim[1], r, xfirst) >>]
    IN  [ok |-> \A c \in outer : ~Inner(c).raised,
         cands |-> UNION {{IF xfirst THEN [x |-> c, y |-> d]
                                     ELSE [x |-> d, y |-> c] :
                             d \in Elements(Inner(c).cands)} : c \in outer}]

\* the candidates of try_single() on the scale s
Outer(s, single) == Elements(single[s].cands)

\* the lengths that the second axis is planned with
SecondLengths(s, r, xfirst, single) ==
    IF r = None THEN {}
    ELSE {RangesLength(c.lim[2] - c.lim[1], Val(r), xfirst) :
            c \in Outer(s, single)}

\* the loops of coords.py:186-230 over what try_single yields: single[s]
\* without a length, tried[<< s, l >>] with the length l
RangesLoops(xs, ys, r, single, tried) ==
    LET free == [ok |-> TRUE,
                 cands |-> {[x |-> c, y |-> d] :
                              c \in Outer(xs, single), d \in Outer(ys, single)}]
        xy == NestedLoop(Outer(xs, single), ys, tried, Val(r), TRUE)
        yx == NestedLoop(Outer(ys, single), xs, tried, Val(r), FALSE)
        ll == IF r = None THEN free
              ELSE [ok |-> xy.ok /\ yx.ok, cands |-> xy.cands \cup yx.cands]
    IN  IF ~ll.ok THEN {Failed("AssertionError")}
        ELSE IF ll.cands = {} THEN {Failed("UnboundLocalError")}
        ELSE {Drawn(c) : c \in ll.cands}

\* the calls try_single(length=l) of the inner loops
RangesSecond(xs, ys, r, fl, dn, single) ==
    RangesLoops(xs, ys, r, single,
        [p \in ({ys} \X SecondLengths(xs, r, TRUE, single))
                 \cup ({xs} \X SecondLengths(ys, r, FALSE, single)) |->
            LinearTrySingle(p[1].data_range, p[1].lim, Some(p[2]), fl, dn)])

\* the outcomes of ranges_and_ticks(w, h, x_scale, y_scale, ..., aspect=r)
RangesAndTicks(xs, ys, r, fl, dn) ==
    RangesSecond(xs, ys, r, fl, dn,
        [s \in {xs, ys} |-> LinearTrySingle(s.data_range, s.lim, None, fl, dn)])

\* the scales of the call: data ranges, without and with fixed limits
XScales ==
    { [data_range |-> << 2 * Grid, 18 * Grid >>, lim |-> None],
      [data_range |-> << -6 * Grid, -5 * Grid >>, lim |-> None],
      [data_range |-> << 4 * Grid, 16 * Grid >>, lim |-> Some(<< 0, One >>)] }

YScales ==
    { [data_range |-> << 6 * Grid, 17 * Grid >>, lim |-> None],
      [data_range |-> << 0, One + One \div 2000 >>, lim |-> None],
      [data_range |-> << 0, One >>, lim |-> None],
      [data_range |-> << 4 * Grid, 16 * Grid >>, lim |-> Some(<< 0, One >>)] }

\* the aspect ratios of the call, as fractions
RangesAspects == { << 1, 1 >>, << 4, 5 >>, << 2, 1 >> }

CallRangesAndTicks ==
    /\ pc = "idle"
    /\ \E xs \in XScales, ys \in YScales,
          r \in {None} \cup {Some(f) : f \in RangesAspects},
          f1 \in FlipSet, f2 \in FlipSet, f3 \in FlipSet, dn \in BOOLEAN :
        /\ arg' = [x |-> xs, y |-> ys, aspect |-> r,
                   flips |-> << f1, f2, f3, dn >>]
        /\ ret' \in RangesAndTicks(xs, ys, r, << f1, f2, f3 >>, dn)
    /\ fn' = "ranges_and_ticks"
    /\ pc' = "returned"
    /\ UNCHANGED genvars
    /\ UNCHANGED layvars

RangesNext == CallRangesAndTicks

RangesSpec == Init /\ [][RangesNext]_vars

\* ranges_and_ticks has returned ranges for an aspect ratio
RangesReturned ==
    /\ pc = "returned"
    /\ fn = "ranges_and_ticks"
    /\ arg.aspect # None
    /\ ret.kind = "return"

\* (y span) * h * den - (x span) * w * num for the aspect num / den: zero
\* iff (y span) / (x span) == aspect * w / h
RatioGap ==
    LET r == Val(arg.aspect)
        u == (ret.y_lim[2] - ret.y_lim[1]) * (r[2] * RangesSize[2])
        v == (ret.x_lim[2] - ret.x_lim[1]) * (r[1] * RangesSize[1])
    IN  IF u >= v THEN u - v ELSE v - u

C21_WitnessFree ==
    /\ RangesReturned
    /\ arg.x.lim = None /\ arg.y.lim = None
    /\ ret.y_lim[1] < arg.y.data_range[1]
    /\ ret.y_ticks[1] = ret.y_lim[1]

(***************************************************************************)
(* Device.data_range (device.py:302-360) and util.data_range               *)
(* (util.py:143-188).  An argument is a record with its type t, its value  *)
(* v (for a finite number) and its items (for a list or tuple).            *)
(***************************************************************************)
Item(t, v, items) == [t |-> t, v |-> v, items |-> items]

\* isinstance(arg, (float, int)): a finite number, nan, inf or -inf
IsNumber(x) == x.t \in {"num", "nan", "inf", "ninf"}

\* np.isfinite(arg)
IsFinite(x) == x.t = "num"

\* the finite numbers of a sequence of numbers
FiniteOf(items) == {items[i].v : i \in {j \in 1..Len(items) : IsFinite(items[j])}}

SetMin(S) == CHOOSE m \in S : \A n \in S : m <= n

SetMax(S) == CHOOSE m \in S : \A n \in S : m >= n

\* np.array(arg).flatten(), aa[np.isfinite(aa)], np.min(aa), np.max(aa)
\* (device.py:331-334): a list of numbers, or a list of lists of numbers of
\* one length, becomes an array of floats, and min of an empty array raises
\* ValueError; a list with None or text becomes an array of objects or of
\* strings, on which isfinite raises TypeError; a list of uneven shape
\* raises ValueError, or, with a numpy that still builds an array of
\* objects from it (old), TypeError
Numpy(x, old) ==
    LET n      == Len(x.items)
        flat   == \A i \in 1..n : IsNumber(x.items[i])
        rect   == /\ n > 0
                  /\ \A i \in 1..n :
                       /\ x.items[i].t = "list"
                       /\ Len(x.items[i].items) = Len(x.items[1].items)
                       /\ \A j \in 1..Len(x.items[i].items) :
                            IsNumber(x.items[i].items[j])
        scalar == \A i \in 1..n : x.items[i].t # "list"
        vals   == IF flat THEN FiniteOf(x.items)
                  ELSE UNION {FiniteOf(x.items[i].items) : i \in 1..n}
    IN  IF x.t = "str" THEN Raise("TypeError")
        ELSE IF flat \/ rect
          THEN IF vals = {} THEN Raise("ValueError")
               ELSE Return(SetMin(vals), SetMax(vals))
        ELSE IF scalar THEN Raise("TypeError")
        ELSE IF old THEN Raise("TypeError") ELSE Raise("ValueError")

\* the loop of device.py:347-352 has no handler for the ValueError of the
\* recursive call
CatchesNothing(exc) == FALSE

\* the loop over the arguments from argument i on, with lower and upper as
\* they stand; dev tells Device.data_range from util.data_range, whose
\* handler of util.py:167 does not catch TypeError
RECURSIVE DataRangeFrom(_, _, _, _, _, _)
RECURSIVE IterateFrom(_, _, _, _, _, _)
DataRangeFrom(args, i, lo, hi, dev, old) ==
    IF i > Len(args)
      THEN IF lo > hi THEN Raise("ValueError") ELSE Return(lo, hi)
    ELSE
      LET x == args[i]
      IN  IF x.t = "none" THEN DataRangeFrom(args, i + 1, lo, hi, dev, old)
          ELSE IF IsNumber(x)
            THEN IF ~IsFinite(x)
                   THEN DataRangeFrom(args, i + 1, lo, hi, dev, old)
                   ELSE DataRangeFrom(args, i + 1, Min(lo, x.v),
                                      Max(hi, x.v), dev, old)
          ELSE
            LET np == Numpy(x, old)
            IN  IF np.kind = "return"
                  THEN DataRangeFrom(args, i + 1, Min(lo, np.val[1]),
                                     Max(hi, np.val[2]), dev, old)
                ELSE IF np.kind = "TypeError" /\ ~dev THEN Raise("TypeError")
                ELSE IF x.t = "str" THEN Raise("TypeError")
                ELSE
                  LET r == IterateFrom(x.items, 1, lo, hi, dev, old)
                  IN  IF r.kind = "return"
                        THEN DataRangeFrom(args, i + 1, r.val[1], r.val[2],
                                           dev, old)
                        ELSE r

\* for a2 in arg: a, b = data_range(a2); ... (device.py:347-352)
IterateFrom(items, j, lo, hi, dev, old) ==
    IF j > Len(items) THEN Return(lo, hi)
    ELSE
      LET r == DataRangeFrom(<< items[j] >>, 1, Inf, -Inf, dev, old)
      IN  IF r.kind = "return"
            THEN IterateFrom(items, j + 1, Min(lo, r.val[1]),
                             Max(hi, r.val[2]), dev, old)
          ELSE IF CatchesNothing(r.kind)
            THEN IterateFrom(items, j + 1, lo, hi, dev, old)
          ELSE r

\* data_range(*args)
DataRangeOf(args, dev, old) == DataRangeFrom(args, 1, Inf, -Inf, dev, old)

Scalars ==
    {Item("none", 0, << >>), Item("nan", 0, << >>), Item("inf", 0, << >>),
     Item("str", 0, << >>)} \cup {Item("num", n, << >>) : n \in 1..3}

Pairs == {Item("list", 0, << x, y >>) :
            x \in {Item("num", 2, << >>), Item("num", 3, << >>)},
            y \in {Item("num", 3, << >>), Item("nan", 0, << >>)}}

Lists ==
    {Item("list", 0, << >>)}
      \cup {Item("list", 0, << x >>) : x \in Scalars}
      \cup {Item("list", 0, << x, y >>) : x \in Scalars, y \in Scalars \cup Pairs}
      \cup {Item("list", 0, << x, y >>) : x \in Pairs, y \in Pairs}

ArgLists ==
    {<< >>} \cup {<< x >> : x \in Scalars \cup Lists}
      \cup {<< x, y >> : x \in Scalars, y \in Scalars \cup Lists}

CallDataRange ==
    /\ pc = "idle"
    /\ \E args \in ArgLists, dev \in BOOLEAN, old \in BOOLEAN :
        /\ arg' = [args |-> args, dev |-> dev, old |-> old]
        /\ ret' = DataRangeOf(args, dev, old)
    /\ fn' = "data_range"
    /\ pc' = "returned"
    /\ UNCHANGED genvars
    /\ UNCHANGED layvars

DataRangeNext == CallDataRange

DataRangeSpec == Init /\ [][DataRangeNext]_vars

DataRangeReturned == pc = "returned" /\ fn = "data_range"

\* the finite numbers found anywhere in the arguments
RECURSIVE AllFinite(_)
AllFinite(items) ==
    UNION {IF items[i].t = "list" THEN AllFinite(items[i].items)
           ELSE IF IsFinite(items[i]) THEN {items[i].v} ELSE {} :
             i \in 1..Len(items)}

\* some argument, at any depth, is of type t
RECURSIVE Holds(_, _)
Holds(items, t) ==
    \E i \in 1..Len(items) :
        \/ items[i].t = t
        \/ items[i].t = "list" /\ Holds(items[i].items, t)

\* C22: data_range returns (min, max) over all finite numbers found in its
\* arguments after flattening, ignoring None, NaN and infinity wherever
\* they occur; it raises ValueError when there is no finite value at all
\* and TypeError for a string.
C22_DataRange ==
    DataRangeReturned =>
        LET fin == AllFinite(arg.args)
        IN  IF Holds(arg.args, "str")
              THEN (\A t \in {"none", "nan", "inf"} : ~Holds(arg.args, t))
                      => ret.kind = "TypeError"
              ELSE IF fin = {} THEN ret.kind = "ValueError"
              ELSE ret = Return(SetMin(fin), SetMax(fin))

\* None, NaN and infinity occur as arguments themselves, or in lists of
\* numbers that hold a finite number too, and nowhere else
OnlyEasyGaps ==
    \A i \in 1..Len(arg.args) :
        LET x == arg.args[i]
        IN  x.t = "list" =>
              \/ \A t \in {"none", "nan", "inf"} : ~Holds(x.items, t)
              \/ /\ \A j \in 1..Len(x.items) : IsNumber(x.items[j])
                 /\ FiniteOf(x.items) # {}

\* the same contract for such arguments, where the TypeError of isfinite
\* on an array of objects is caught or does not arise
C22_EasyGaps ==
    (DataRangeReturned /\ OnlyEasyGaps /\ (arg.dev \/ ~arg.old)) => C22_DataRange

\* a NaN in a list of uneven shape next to finite numbers: ValueError
C22_NanInNested ==
    /\ DataRangeReturned
    /\ arg.dev
    /\ arg.args = << Item("list", 0,
                          << Item("nan", 0, << >>),
                             Item("list", 0, << Item("num", 2, << >>),
                                                Item("num", 3, << >>) >>) >>) >>
    /\ ret.kind = "ValueError"

(***************************************************************************)
(* Device.get_param and Device._get_param (device.py:82-138).  A style     *)
(* maps names to values; a value is text, and text that starts with '$'    *)
(* refers to another name.                                                 *)
(***************************************************************************)
Lit(s) == [ref |-> FALSE, v |-> s]

Ref(n) == [ref |-> TRUE, v |-> n]

\* three of the names of param.DEFAULT and their types (param.py:43,58,60)
ParamType ==
    [n \in {"lw", "plot_lw", "plot_point_separate"} |->
        IF n = "plot_point_separate" THEN "bool" ELSE "dim"]

VALID_KEYS == DOMAIN ParamType

\* a name that is no parameter (canvas_test.py:80)
AllNames == VALID_KEYS \cup {"font.size"}

StyleValues == {Lit("1pt"), Lit("yes")} \cup {Ref(n) : n \in AllNames}

\* style.get(key); a style holds Some(value) or None for a name
StyleGet(style, k) == IF k \in DOMAIN style THEN style[k] ELSE None

\* style.keys()
Keys(style) == {n \in DOMAIN style : style[n] # None}

\* the value of the device's style wherever the explicit style has one
DeviceFirst(x, y) == IF y # None THEN y ELSE x

\* value = style.get(key); if value is None: value = self.style.get(key)
ExplicitFirst(x, y) == IF x # None THEN x ELSE y

\* the conversions of device.py:118-137: a length for 'dim', and True for
\* "yes" for 'bool'; text that is neither raises ValueError
Convert(type, v) ==
    IF type = "dim"
      THEN IF v = "1pt" THEN Return("dim", v) ELSE Raise("ValueError")
      ELSE IF v = "yes" THEN Return("bool", v) ELSE Raise("ValueError")

\* the styles of a device hold a value for every parameter (param.update)
DeviceStyles == [VALID_KEYS -> {Some(v) : v \in StyleValues}]

\* explicit styles with at most one name
ExplicitStyles ==
    {[n \in AllNames |-> None]}
      \cup {[n \in AllNames |-> IF n = m THEN Some(v) ELSE None] :
              m \in AllNames, v \in StyleValues}

\* get_param: check_keys, then seen = [key]
CallGetParam ==
    /\ pc = "idle"
    /\ \E k \in AllNames, style \in ExplicitStyles, dstyle \in DeviceStyles :
        /\ arg' = [key |-> k, style |-> style, dstyle |-> dstyle]
        /\ IF Keys(style) \subseteq VALID_KEYS
             THEN /\ pc' = "loop"
                  /\ seen' = << k >>
                  /\ ret' = ret
             ELSE /\ pc' = "returned"
                  /\ seen' = seen
                  /\ ret' = Raise("InvalidParameterName")
    /\ fn' = "get_param"
    /\ UNCHANGED genvars
    /\ UNCHANGED << lpc, lay, lay0, need, aspect, fx, one, last_subplot >>

\* one turn of `while True` (device.py:100-116), and the conversion after
\* the loop when it breaks
GetParamLoop ==
    /\ pc = "loop"
    /\ fn = "get_param"
    /\ LET k     == seen[Len(seen)]
           value == ExplicitFirst(StyleGet(arg.style, k),
                                  StyleGet(arg.dstyle, k))
       IN  IF value = None
             THEN /\ pc' = "returned"
                  /\ ret' = Raise("InvalidParameterName")
                  /\ seen' = seen
           ELSE IF Val(value).ref
             THEN IF \E i \in 1..Len(seen) : seen[i] = Val(value).v
                    THEN /\ pc' = "returned"
                         /\ ret' = Raise("WrongUsage")
                         /\ seen' = seen
                    ELSE /\ seen' = Append(seen, Val(value).v)
                         /\ UNCHANGED << pc, ret >>
           ELSE /\ pc' = "returned"
                /\ ret' = Convert(ParamType[k], Val(value).v)
                /\ seen' = seen
    /\ UNCHANGED << fn, arg >>
    /\ UNCHANGED genvars
    /\ UNCHANGED << lpc, lay, lay0, need, aspect, fx, one, last_subplot >>

GetParamNext == CallGetParam \/ GetParamLoop

\* the state of Init, with a record for arg and for ret from the start
GetParamInit ==
    /\ pc = "idle"
    /\ fn = "none"
    /\ arg = [key |-> "", style |-> [n \in AllNames |-> None],
              dstyle |-> [n \in VALID_KEYS |-> None]]
    /\ ret = Raise("none")
    /\ a = 0
    /\ b = 0
    /\ width = 0
    /\ allow_outside = TRUE
    /\ step = 0
    /\ dx = 0
    /\ ia = 0
    /\ ib = 0
    /\ iter = 0
    /\ all_inside = FALSE
    /\ lim = << 0, 0 >>
    /\ ticks = << >>
    /\ nyield = 0
    /\ lpc = "off"
    /\ NoLayout
    /\ last_subplot = None

\* a call that was begun goes on
GetParamSpec ==
    GetParamInit /\ [][GetParamNext]_vars /\ WF_vars(GetParamLoop)

GetParamReturned == pc = "returned" /\ fn = "get_param"

GetParamChecked ==
    fn = "get_param" /\ \A n \in AllNames \ VALID_KEYS : arg.style[n] = None

\* the value of a name: that of the explicit style if it has one
Effective(n) ==
    IF arg.style[n] # None THEN arg.style[n]
    ELSE IF n \in DOMAIN arg.dstyle THEN arg.dstyle[n]
    ELSE None

\* seen is the chain of references from the key, without a repetition
IsChain ==
    /\ Len(seen) >= 1
    /\ seen[1] = arg.key
    /\ \A i \in 1..(Len(seen) - 1) : Effective(seen[i]) = Some(Ref(seen[i + 1]))
    /\ \A i, j \in 1..Len(seen) : seen[i] = seen[j] => i = j

\* the three ways to end of the claim; strict leaves the conversion no
\* way to fail
EndsWell(strict) ==
    IF ~GetParamReturned THEN TRUE
    ELSE
        IF ~GetParamChecked THEN ret = Raise("InvalidParameterName")
        ELSE /\ IsChain
             /\ LET last == seen[Len(seen)]
                    v    == Effective(last)
                IN  IF v = None THEN ret = Raise("InvalidParameterName")
                    ELSE IF Val(v).ref
                      THEN /\ \E i \in 1..Len(seen) : seen[i] = Val(v).v
                           /\ ret = Raise("WrongUsage")
                    ELSE /\ ret = Convert(ParamType[last], Val(v).v)
                         /\ strict => ret.kind = "return"

C23_WitnessLoop == GetParamReturned /\ Len(seen) = 3 /\ ret = Raise("WrongUsage")

(***************************************************************************)
(* Layout2D.fix on a device too narrow for two labels (layout.py:218-284). *)
(***************************************************************************)
\* two neighbouring labels of the layout overlap: r[i] > l[i + 1] for the
\* label edges l and r of label_penalty (layout.py:138-139), with every
\* shift .5 and every label LabelWidth wide
Overlaps(l) ==
    /\ l.labels # None
    /\ l.lim # None
    /\ Len(Val(l.ticks)) >= 2
    /\ LET t  == Val(l.ticks)
           sp == D(Val(l.lim)[2] - Val(l.lim)[1])
       IN  (l.dev_inner * D(t[2] - t[1])) \div sp < LabelWidth

\* the ticks of the axis are planned on a device whose inner length is less
\* than the width of one label: no two ticks within the limits are a label
\* apart
TooNarrow(ax) == need[ax].ticks /\ lay[ax].dev_inner < LabelWidth

\* C24: when the device length is too small to fit even 2 ticks with
\* labels that do not overlap, at any of the step sizes tried, fix signals
\* an error and does not return a layout whose labels overlap.
C24_InsufficientSpace ==
    FixDone => \A ax \in Axes : ~(TooNarrow(ax) /\ Overlaps(lay[ax]))

\* on such a device the labels of every axis overlap whose limits and
\* ticks fix has planned
C24_AlwaysOverlaps ==
    FixDone => \A ax \in Axes : (TooNarrow(ax) /\ need[ax].lim) => Overlaps(lay[ax])

\* fix returned a layout with overlapping labels on both axes
C24_ReturnsOverlap ==
    FixDone /\ \A ax \in Axes : TooNarrow(ax) /\ Overlaps(lay[ax])

(***************************************************************************)
(* Linear._labels (scale.py:118-135).  A tick is n * 10^e for whole        *)
(* numbers n and e, a label is the sequence of its characters.             *)
(***************************************************************************)
MaxIndex == 3
MaxNegExp == 6
MaxExp == 5

DigitChar(d) == << "0", "1", "2", "3", "4", "5", "6", "7", "8", "9" >>[d + 1]

\* the decimal digits of n >= 0
RECURSIVE Digits(_)
Digits(n) == IF n < 10 THEN << DigitChar(n) >> ELSE Digits(n \div 10) \o << DigitChar(n % 10) >>

\* the number of zeros at the end of n > 0
RECURSIVE TrailingZeros(_)
TrailingZeros(n) == IF n % 10 # 0 THEN 0 ELSE 1 + TrailingZeros(n \div 10)

\* str.rjust(n, ch)
RECURSIVE RJust(_, _, _)
RJust(s, n, ch) == IF Len(s) >= n THEN s ELSE RJust(<< ch >> \o s, n, ch)

\* str.ljust(n, ch)
RECURSIVE LJust(_, _, _)
LJust(s, n, ch) == IF Len(s) >= n THEN s ELSE LJust(s \o << ch >>, n, ch)

Has(s, ch) == \E i \in 1..Len(s) : s[i] = ch

\* "%g" % x for x = t.n * 10^t.e with at most six significant digits: the
\* digits without zeros at the end, with an exponent of two digits if the
\* first digit stands for less than 1e-4 or for 1e6 or more
FormatG(t) ==
    IF t.n = 0 THEN << "0" >>
    ELSE
      LET m    == IF t.n < 0 THEN -t.n ELSE t.n
          z    == TrailingZeros(m)
          sig  == m \div Pow10(z)
          e0   == t.e + z
          ds   == Digits(sig)
          x    == e0 + Len(ds) - 1
          sign == IF t.n < 0 THEN << "-" >> ELSE << >>
      IN  IF x < -4 \/ x >= 6
            THEN sign \o << ds[1] >>
                   \o (IF Len(ds) > 1 THEN << "." >> \o SubSeq(ds, 2, Len(ds)) ELSE << >>)
                   \o << "e", IF x < 0 THEN "-" ELSE "+" >>
                   \o RJust(Digits(IF x < 0 THEN -x ELSE x), 2, "0")
          ELSE IF e0 >= 0 THEN sign \o ds \o [i \in 1..e0 |-> "0"]
          ELSE sign \o Digits(sig \div Pow10(-e0)) \o << "." >>
                 \o RJust(Digits(sig % Pow10(-e0)), -e0, "0")

\* l.split("."), with '0' for the second part if there is none
Split(l) ==
    IF Has(l, ".")
      THEN LET i == CHOOSE j \in 1..Len(l) : l[j] = "."
           IN  << SubSeq(l, 1, i - 1), SubSeq(l, i + 1, Len(l)) >>
      ELSE << l, << "0" >> >>

MaxOf(S) == CHOOSE m \in S : \A n \in S : m >= n

\* Linear(pad_labels=pad)._labels(ticks)
Labels(tk, pad) ==
    LET ll0   == [i \in 1..Len(tk) |-> FormatG(tk[i])]
        parts == [i \in 1..Len(tk) |-> Split(ll0[i])]
        max_digits == MaxOf({Len(parts[i][2]) : i \in 1..Len(tk)})
        ll1   == IF (\A i \in 1..Len(tk) : ~Has(ll0[i], "e"))
                      /\ (\E i \in 1..Len(tk) : Has(ll0[i], "."))
                   THEN [i \in 1..Len(tk) |->
                           parts[i][1] \o << "." >> \o LJust(parts[i][2], max_digits, "0")]
                   ELSE ll0
        max_len == MaxOf({Len(ll1[i]) : i \in 1..Len(tk)})
    IN  IF pad THEN [i \in 1..Len(tk) |-> RJust(ll1[i], max_len, " ")] ELSE ll1

\* the ticks i * dx for i = first, ..., last, with dx = c * 10^e
TicksOf(first, last, c, e) ==
    [i \in 1..(last - first + 1) |-> [n |-> (first + i - 1) * c, e |-> e]]

\* the scale lengths 1, 2, 2.5 and 5 times a power of ten
Mantissas == {1, 2, 25, 5}

CallLabels ==
    /\ pc = "idle"
    /\ \E first \in (-MaxIndex)..MaxIndex, count \in 1..MaxIndex,
          c \in Mantissas, e \in (-MaxNegExp)..MaxExp, pad \in BOOLEAN :
        /\ arg' = [ticks |-> TicksOf(first, first + count, c, e), pad |-> pad]
        /\ ret' = Labels(TicksOf(first, first + count, c, e), pad)
    /\ fn' = "_labels"
    /\ pc' = "returned"
    /\ UNCHANGED genvars
    /\ UNCHANGED layvars

LabelsNext == CallLabels

LabelsSpec == Init /\ [][LabelsNext]_vars

LabelsReturned == pc = "returned" /\ fn = "_labels"

\* a label without the blanks in front of it
RECURSIVE Unpadded(_)
Unpadded(l) == IF l # << >> /\ l[1] = " " THEN Unpadded(Tail(l)) ELSE l

\* the digits after the point of a label with a point
FracDigits(l) == Len(Split(l)[2])

\* the label is the '%g' text g, with '.0' if g has no point, and zeros
RECURSIVE ZerosAppended(_, _)
ZerosAppended(l, g) ==
    LET g1 == IF Has(g, ".") THEN g ELSE g \o << ".", "0" >>
    IN  /\ Len(l) >= Len(g1)
        /\ SubSeq(l, 1, Len(g1)) = g1
        /\ \A i \in (Len(g1) + 1)..Len(l) : l[i] = "0"

\* the number a label without exponent stands for, as whole number of
\* 10^-k with k the number of its digits after the point
RECURSIVE Number(_)
Number(ds) ==
    IF ds = << >> THEN 0
    ELSE 10 * Number(SubSeq(ds, 1, Len(ds) - 1))
           + (CHOOSE d \in 0..9 : DigitChar(d) = ds[Len(ds)])

LabelValue(l) ==
    LET u   == Unpadded(l)
        neg == u[1] = "-"
        v   == IF neg THEN Tail(u) ELSE u
        sp  == Split(v)
        k   == IF Has(v, ".") THEN Len(sp[2]) ELSE 0
        m   == Number(sp[1] \o (IF Has(v, ".") THEN sp[2] ELSE << >>))
    IN  [n |-> IF neg THEN -m ELSE m, e |-> -k]

\* two numbers n * 10^e are equal
SameNumber(x, y) ==
    LET lo == IF x.e < y.e THEN x.e ELSE y.e
    IN  x.n * Pow10(x.e - lo) = y.n * Pow10(y.e - lo)

Aligned == 
    /\ \A i \in 1..Len(arg.ticks) : ~Has(FormatG(arg.ticks[i]), "e")
    /\ \E i \in 1..Len(arg.ticks) : Has(FormatG(arg.ticks[i]), ".")

\* C25: _labels returns one label per tick; when no '%g' label has an
\* exponent and one has a point, every label has a point and as many
\* digits after it as the longest, got by appending zeros only ('.0'
\* first for a label without a point), so that the number it stands for
\* is that of the tick; with pad_labels all labels have one length.
C25_Labels ==
    LabelsReturned =>
        /\ Len(ret) = Len(arg.ticks)
        /\ Aligned =>
             \A i \in 1..Len(ret) :
                /\ Has(ret[i], ".")
                /\ FracDigits(ret[i])
                     = MaxOf({FracDigits(FormatG(arg.ticks[j])) : j \in 1..Len(ret)})
                /\ ZerosAppended(Unpadded(ret[i]), FormatG(arg.ticks[i]))
                /\ SameNumber(LabelValue(ret[i]), arg.ticks[i])
        /\ arg.pad => \A i, j \in 1..Len(ret) : Len(ret[i]) = Len(ret[j])

\* a label without a point and one with fewer digits were filled up, and
\* a shorter label was padded
C25_Witness ==
    /\ LabelsReturned
    /\ Aligned
    /\ arg.pad
    /\ \E i \in 1..Len(ret) : ~Has(FormatG(arg.ticks[i]), ".")
    /\ \E i \in 1..Len(ret) :
         /\ Has(FormatG(arg.ticks[i]), ".")
         /\ Len(Unpadded(ret[i])) > Len(FormatG(arg.ticks[i]))
    /\ \E i \in 1..Len(ret) : ret[i][1] = " "

\* labels with exponents are left as '%g' wrote them
C25_WitnessExp ==
    /\ LabelsReturned
    /\ \E i \in 1..Len(ret) : Has(ret[i], "e") /\ Has(ret[i], ".")
    /\ \E i \in 1..Len(ret) : ~Has(ret[i], "e")

(***************************************************************************)
(* The label penalty p0 of coords.Linear.penalties (coords.py:140-150) and *)
(* of axis._penalties (axis.py:131-154).  Lengths are whole numbers, p0 is *)
(* a fraction << numerator, denominator >> in lowest terms.                *)
(***************************************************************************)
MaxLabels == 3

Fraction(n, d) == << n \div GCD(n, d), d \div GCD(n, d) >>

FractionSum(x, y) == Fraction(x[1] * y[2] + y[1] * x[2], x[2] * y[2])

\* a test that counts labels that touch as overlapping
OverlapsOrTouches(data_length, space) == data_length[1] >= space * data_length[2]

\* overlap = data_length - space; if overlap > 0
PositiveOverlap(data_length, space) == data_length[1] > space * data_length[2]

\* the body of `for i in range(1, len(label_width))` for one i:
\* dev_length = .5 * (label_width[i-1] + label_width[i]) + label_sep,
\* data_length = dev_length / scale with scale = width / (axis_range[1] -
\* axis_range[0]), and what is added to p0
PairPenalty(wd, span, tk, lw, sep, i) ==
    LET data_length == Fraction((lw[i - 1] + lw[i] + 2 * sep) * span, 2 * wd)
        space       == tk[i] - tk[i - 1]
    IN  IF PositiveOverlap(data_length, space)
          THEN FractionSum(<< 1, 1 >>,
                           Fraction(data_length[1] - space * data_length[2], data_length[1]))
          ELSE << 0, 1 >>

RECURSIVE P0From(_, _, _, _, _, _)
P0From(wd, span, tk, lw, sep, i) ==
    IF i > Len(lw) THEN << 0, 1 >>
    ELSE FractionSum(PairPenalty(wd, span, tk, lw, sep, i),
                     P0From(wd, span, tk, lw, sep, i + 1))

\* p0 for a device length wd, limits of length span, ticks tk, label
\* extents lw or None, and the least separation sep
P0(wd, span, tk, lw, sep) ==
    IF lw = None THEN << 0, 1 >> ELSE P0From(wd, span, tk, Val(lw), sep, 2)

\* tick lists from 0 on, with the distances of TickGaps
TickGaps == {5, 10, 15, 20, 30}

RECURSIVE TickListsOf(_)
TickListsOf(n) ==
    IF n = 1 THEN {<< 0 >>}
    ELSE {Append(t, t[Len(t)] + g) : t \in TickListsOf(n - 1), g \in TickGaps}

\* the extents of the labels along the axis: the widths of the texts on a
\* parallel axis, the height of the font for every label otherwise
Extents(n, parallel) ==
    IF parallel THEN [1..n -> {10, 20}] ELSE {[i \in 1..n |-> 10], [i \in 1..n |-> 20]}

CallPenalties ==
    /\ pc = "idle"
    /\ \E n \in 1..MaxLabels, parallel \in BOOLEAN, wd \in {60, 120},
          span \in {60, 120}, sep \in {0, 10} :
        \E tk \in TickListsOf(n), lw \in {None} \cup {Some(e) : e \in Extents(n, parallel)} :
            /\ arg' = [width |-> wd, span |-> span, ticks |-> tk, label_width |-> lw,
                       label_sep |-> sep, is_parallel |-> parallel]
            /\ ret' = P0(wd, span, tk, lw, sep)
    /\ fn' = "penalties"
    /\ pc' = "returned"
    /\ UNCHANGED genvars
    /\ UNCHANGED layvars

PenaltiesNext == CallPenalties

PenaltiesSpec == Init /\ [][PenaltiesNext]_vars

PenaltiesReturned == pc = "returned" /\ fn = "penalties"

\* the distance the labels of ticks i - 1 and i need, in data units and
\* times 2 * arg.width
Required(i) ==
    (Val(arg.label_width)[i - 1] + Val(arg.label_width)[i] + 2 * arg.label_sep) * arg.span

\* the distance of the ticks i - 1 and i, times 2 * arg.width
Spacing(i) == (arg.ticks[i] - arg.ticks[i - 1]) * 2 * arg.width

\* the sum of 1 + overlap / required = (2 * required - spacing) / required
\* over the pairs from i on whose required distance exceeds the spacing
RECURSIVE OverlapSum(_)
OverlapSum(i) ==
    IF i > Len(arg.ticks) THEN << 0, 1 >>
    ELSE FractionSum(IF Required(i) > Spacing(i)
                       THEN Fraction(2 * Required(i) - Spacing(i), Required(i))
                       ELSE << 0, 1 >>,
                     OverlapSum(i + 1))

C26_WitnessHalf ==
    /\ PenaltiesReturned
    /\ arg.label_width # None
    /\ Len(arg.ticks) = 2
    /\ Required(2) = 2 * Spacing(2)
    /\ ret = << 3, 2 >>

(***************************************************************************)
(* What Layout2D.fix leaves alone (layout.py:165-284).                     *)
(***************************************************************************)
\* _fix_one is at work on the axis
Planning(ax) ==
    \/ lpc \in FixCalls /\ AxisAt(lpc) = ax
    \/ lpc \in {"o_both", "o_ticks"} /\ one.axis = ax

OtherAxis(ax) == IF ax = "x" THEN "y" ELSE "x"

\* after fix the limits and ticks given at construction are in place
SuppliedKept(ls, ls0, nd) ==
    \A ax \in Axes :
        /\ ~nd[ax].lim => ls[ax].lim = ls0[ax].lim
        /\ ~nd[ax].ticks => ls[ax].ticks = ls0[ax].ticks

\* C27: fix, with or without aspect, never changes limits or ticks that
\* were given at construction: they have the same value after fix; and
\* without aspect no step of planning one axis changes a field of the
\* layout of the other axis.
C27_SuppliedKept ==
    [][ /\ lpc' = "f_done" => SuppliedKept(lay', lay0', need')
        /\ (lpc # "l_idle" /\ aspect = None) =>
              \A ax \in Axes : Planning(ax) => lay'[OtherAxis(ax)] = lay[OtherAxis(ax)]
      ]_vars

\* fix with aspect has returned; the limits of x were given and its ticks
\* planned, and both orderings could not be tried
C27_Witness ==
    /\ FixDone
    /\ aspect # None
    /\ ~need["x"].lim /\ need["x"].ticks
    /\ need["y"].lim /\ ~need["y"].ticks
    /\ lay["x"].lim = lay0["x"].lim
    /\ lay["y"].ticks = lay0["y"].ticks
    /\ lay["y"].lim # None

\* fix without aspect has returned with the ticks it planned for x next
\* to the limits that were given
C27_WitnessPlain ==
    /\ FixDone
    /\ aspect = None
    /\ ~need["x"].lim /\ need["x"].ticks
    /\ lay["x"].lim = lay0["x"].lim
    /\ lay["y"] # lay0["y"]

(***************************************************************************)
(* The assertion of axis._try_second (axis.py:53) on the calls made by     *)
(* axis._try_pairs (axis.py:89-99).                                        *)
(***************************************************************************)
\* the limits _try_pairs is called with, after _fixup_lim
FixedUp(l) == IF l[1] = l[2] THEN << l[1] - One, l[2] + One >> ELSE l

\* C28: the assertion lim[1] - lim[0] <= length of _try_second holds on
\* every call made by _try_pairs, for data limits of positive span and
\* every q > 0, whichever axis is planned first and for each candidate of
\* the first axis.
C28_AssertionHolds ==
    (AxesReturned /\ arg.aspect # None /\ InOrder) => ret.kind # "AssertionError"

\* it holds whenever the y axis is planned first
C28_YFirst ==
    (AxesReturned /\ arg.aspect # None /\ InOrder
       /\ ~XFirst(FixedUp(arg.x_lim), FixedUp(arg.y_lim), AspectQ(Val(arg.aspect))))
      => ret.kind # "AssertionError"

\* it holds whenever the quotient is not rounded down at a tie
C28_ExactQuotient ==
    (AxesReturned /\ arg.aspect # None /\ InOrder /\ ~arg.flips[3])
      => ret.kind # "AssertionError"

\* x is planned first, its span is that of y times q, and the assertion
\* has failed
C28_Fails ==
    /\ AxesReturned
    /\ arg.aspect # None
    /\ arg.x_lim = << 0, (87 * One) \div 80 >>
    /\ arg.y_lim = << 0, (87 * One) \div 100 >>
    /\ ret.kind = "AssertionError"

(***************************************************************************)
(* Termination of the steps of ticks_for_width (scale.py:34-58).           *)
(***************************************************************************)
\* the left ends of the intervals: the least one, and two near 0
WidthStarts == {-MaxCoord, -1, 0}

\* Linear.ticks(a, b, width=w) for the intervals from these left ends
CallWidthRequest ==
    /\ pc = "idle"
    /\ \E ca \in WidthStarts, cb \in Coarse, fa \in Offsets, fb \in Offsets,
          cw \in WidthCoarse, fw \in Offsets, down \in FlipSet :
        /\ ca < cb
        /\ TicksForWidth(ca * Grid + fa, cb * Grid + fb, cw * Grid + fw, down)

WidthNext ==
    \/ CallWidthRequest /\ UNCHANGED layvars
    \/ WidthTop /\ UNCHANGED layvars
    \/ WidthAdd /\ UNCHANGED layvars
    \/ WidthRemove /\ UNCHANGED layvars
    \/ WidthResume /\ UNCHANGED layvars

\* a generator that was resumed runs on to its next yield
WidthSpec ==
    /\ Init
    /\ [][WidthNext]_vars
    /\ WF_vars(WidthTop /\ UNCHANGED layvars)
    /\ WF_vars(WidthAdd /\ UNCHANGED layvars)
    /\ WF_vars(WidthRemove /\ UNCHANGED layvars)

\* ticks_for_width is at work between two yields
WidthRunning == fn = "ticks_for_width" /\ pc \in {"w_top", "w_add", "w_rem"}

\* before the first candidate the step size is at most the third one
\* below the width
FewRefinements ==
    IF fn = "ticks_for_width" /\ nyield = 0
      THEN step >= SmallestScaleLargerThan(width, FALSE) - 3
      ELSE TRUE

\* C29: for a < b and width > 0 each request for the next candidate of
\* ticks_for_width terminates: the loop that adds ticks and the loop that
\* removes ticks stop, and a step size with at least 2 ticks is reached
\* after finitely many refinements (the first candidate after at most
\* three), for b - a <= width and for b - a > width.
C29_Terminates ==
    /\ []FewRefinements
    /\ WidthRunning ~> (pc = "w_yield" \/ BeyondModel)

\* for an interval longer than the width a step size was refined because
\* fewer than 2 ticks were left before the first candidate was yielded
C29_Witness ==
    /\ pc = "w_yield"
    /\ b - a > width
    /\ nyield = 1
    /\ ScaleLength(SmallestScaleLargerThan(width, FALSE) - 1) > dx

\* ticks were added for an interval shorter than the width
C29_WitnessAdd ==
    /\ pc = "w_yield"
    /\ b - a < width
    /\ Len(ticks) >= 4

(***************************************************************************)
(* Canvas.subplot (canvas.py:428-466).                                     *)
(***************************************************************************)
\* the largest number of columns and of rows
MaxGrid == 3

\* cols and rows, and the idx given (None for the default)
GridSizes == (-1)..MaxGrid
Indices == {None} \cup { Some(i) : i \in (-1)..(MaxGrid * MaxGrid) }

\* the object returned by `return ValueError(...)`
ReturnError == [kind |-> "return", val |-> [exc |-> "ValueError"]]

\* a result is that object
IsError(r) == r.kind = "return" /\ DOMAIN r.val = {"exc"}

\* a result is a ValueError that was raised
IsRaised(r) == r.kind = "ValueError"

\* the viewport returned: margin=[None, None, i*dh, j*dw] with
\* i = idx // cols and j = idx % cols
Viewport(cols, idx) ==
    [kind |-> "return", val |-> [row |-> idx \div cols, col |-> idx % cols]]

\* the idx a call without idx continues with
NextIdx(cols, rows) ==
    IF /\ last_subplot # None
       /\ Val(last_subplot)[1] = cols
       /\ Val(last_subplot)[2] = rows
      THEN (Val(last_subplot)[3] + 1) % (cols * rows)
      ELSE 0

\* self.subplot(cols, rows, idx) on one canvas, call after call
CallSubplot ==
    /\ pc \in {"idle", "returned"}
    /\ fn \in {"none", "subplot"}
    /\ \E cols \in GridSizes, rows \in GridSizes, given \in Indices :
        /\ pc' = "returned"
        /\ fn' = "subplot"
        /\ arg' = [cols |-> cols, rows |-> rows, idx |-> given]
        /\ IF rows <= 0 \/ cols <= 0
             THEN /\ ret' = ReturnError
                  /\ last_subplot' = last_subplot
             ELSE LET idx == IF given = None THEN NextIdx(cols, rows)
                                              ELSE Val(given)
                  IN  IF ~(0 <= idx /\ idx < cols * rows)
                        THEN /\ ret' = Raise("ValueError")
                             /\ last_subplot' = last_subplot
                        ELSE /\ ret' = Viewport(cols, idx)
                             /\ last_subplot' = Some(<< cols, rows, idx >>)
    /\ UNCHANGED genvars
    /\ UNCHANGED << lpc, lay, lay0, need, aspect, fx, one, seen >>

SubplotNext == CallSubplot

SubplotSpec == Init /\ [][SubplotNext]_vars

\* the grid of the call that is made is a proper one
GridValid == arg'.cols > 0 /\ arg'.rows > 0

\* the position the call that is made selects when it is a valid one:
\* the idx given, or the one after the remembered position on the same
\* grid, or 0
Selected ==
    IF arg'.idx # None
      THEN Val(arg'.idx)
      ELSE IF /\ last_subplot # None
              /\ Val(last_subplot)[1] = arg'.cols
              /\ Val(last_subplot)[2] = arg'.rows
             THEN IF Val(last_subplot)[3] = arg'.cols * arg'.rows - 1
                    THEN 0
                    ELSE Val(last_subplot)[3] + 1
             ELSE 0

\* the request of the call that is made is a valid one
RequestValid ==
    /\ GridValid
    /\ 0 <= Selected
    /\ Selected <= arg'.cols * arg'.rows - 1

\* a valid call returns the cell of column idx % cols and row idx // cols
\* (idx = row * cols + col with 0 <= col < cols) and remembers the position
ValidCall ==
    /\ ret'.kind = "return"
    /\ DOMAIN ret'.val = {"row", "col"}
    /\ ret'.val.row * arg'.cols + ret'.val.col = Selected
    /\ 0 <= ret'.val.col
    /\ ret'.val.col < arg'.cols
    /\ last_subplot' = Some(<< arg'.cols, arg'.rows, Selected >>)

C30_ReturnsError ==
    [][ IF RequestValid
          THEN ValidCall
          ELSE /\ last_subplot' = last_subplot
               /\ IF GridValid THEN IsRaised(ret')
                               ELSE IsError(ret') ]_vars

\* a call with no columns, after a cell was selected, has come back with
\* a ValueError object
C30_Returned ==
    /\ pc = "returned"
    /\ fn = "subplot"
    /\ arg.cols = 0
    /\ arg.rows > 0
    /\ last_subplot # None
    /\ IsError(ret)

\* a call without idx wrapped around to cell 0 of a grid of several cells
C30_Wrapped ==
    /\ pc = "returned"
    /\ fn = "subplot"
    /\ arg.idx = None
    /\ arg.cols * arg.rows > 1
    /\ ret.kind = "return"
    /\ arg.cols > 0
    /\ arg.rows > 0
    /\ last_subplot = Some(<< arg.cols, arg.rows, 0 >>)

====
